---- MODULE Spec2Model ----
(***************************************************************************)
(* Model of the StockLedger PWA (src/app.js): the in-memory ledger, the    *)
(* primary persisted document (localStorage), and the handlers that mutate *)
(* them (addTrade, edit-save, deleteTradeById, importCsvIntoLedger), plus  *)
(* the average-cost replay (buildLogForOne) and the two strict checks      *)
(* (validateNoOversell, findNegativeHoldings).                             *)
(*                                                                         *)
(* Numbers.  JavaScript numbers are modelled exactly: quantities, prices   *)
(* and fees are whole numbers, average cost and realized P&L are rationals *)
(* <<n, d>> in lowest terms.  Floating-point rounding is not modelled.     *)
(* On whole quantities the tolerance 1e-9 of the strict checks is below    *)
(* one unit, so `q > h + 1e-9` is `q > h` and `next < -1e-9` is `next < 0`.*)
(*                                                                         *)
(* Timestamps.  A timestamp "YYYY-MM-DD HH:MM:SS" is modelled by the       *)
(* number day * SecPerDay + second-of-day, which orders exactly as the     *)
(* fixed-width strings do under localeCompare.                             *)
(*                                                                         *)
(* Backup.  The IndexedDB store is a second function key -> raw document.  *)
(* The put that saveLedger fires and forgets is taken to land together     *)
(* with the handler that fired it; the get of hydrateFromIDBIfNeeded is    *)
(* asynchronous: its result is fixed at one step and the function resumes  *)
(* at a later one, with handlers free to run in between.                   *)
(*                                                                         *)
(* Pages.  A page load initialises the module state anew over the stores   *)
(* the last page left; another page of the same origin may save the        *)
(* primary document and the backup without this page's ledger changing.    *)
(*                                                                         *)
(* Not modelled: DOM rendering, charts, a failing or delayed IndexedDB     *)
(* put, and the legacy-key scan of loadLedger (localStorage holds no other *)
(* stockledger* document here).                                            *)
(***************************************************************************)
EXTENDS Integers, Sequences, FiniteSets, TLC

VARIABLES
  ledger,          \* let ledger (app.js:598): the in-memory document
  localStorage,    \* function key -> raw document; a key outside DOMAIN is absent
  clock,           \* the wall clock read by nowTS(), in seconds
  lastQueryLog,    \* let lastQueryLog (app.js:621)
  lastQueryMarket, \* let lastQueryMarket (app.js:622)
  lastQuerySymbol, \* let lastQuerySymbol (app.js:623)
  idb,             \* the IndexedDB store: function key -> raw document
  hydrate,         \* where hydrateFromIDBIfNeeded stands, and what idbGet read
  lastOp           \* history: the handler that ran last and how it ended

vars == <<ledger, localStorage, clock, lastQueryLog,
          lastQueryMarket, lastQuerySymbol, idb, hydrate, lastOp>>

----------------------------------------------------------------------------
(* Bounds *)

MaxLots  == 2   \* records in the ledger
MaxDay   == 2   \* calendar days an input may name
MaxQty   == 2   \* largest quantity of a small trade
MaxClock == 1   \* seconds the clock may advance
MaxRows  == 2   \* data rows of one CSV batch
MaxReplay == 3  \* records of a ledger handed to the replay

----------------------------------------------------------------------------
(* JavaScript values *)

STORAGE_KEY == "stockledger_v1"

null == "<null>"

\* A JS number that is not finite (NaN) and one that is.
NaN == [finite |-> FALSE, val |-> 0]
Num(i) == [finite |-> TRUE, val |-> i]
IsFinite(x) == x.finite

\* Decimal numerals an input field may hold, with the number each denotes.
Numerals ==
  ("0" :> 0) @@ ("1" :> 1) @@ ("2" :> 2) @@ ("3" :> 3) @@ ("4" :> 4) @@
  ("5" :> 5) @@ ("20" :> 20) @@ ("40" :> 40) @@ ("100" :> 100) @@
  ("586" :> 586) @@ ("600" :> 600) @@ ("-1" :> -1)

\* Number(String(v).replace(/,/g,"").trim()): the empty string is 0, a
\* numeral is its value, anything else is NaN and yields def.
toNumber(v, def) ==
  IF v = "" THEN Num(0)
  ELSE IF v \in DOMAIN Numerals THEN Num(Numerals[v])
  ELSE def

\* String.prototype.toUpperCase on the strings of the model.
toUpperCase(s) ==
  CASE s = "aapl" -> "AAPL"
    [] s = "tw" -> "TW"
    [] s = "us" -> "US"
    [] s = "buy" -> "BUY"
    [] s = "sell" -> "SELL"
    [] s = "b" -> "B"
    [] s = "s" -> "S"
    [] OTHER -> s

normalizeMarket(m) ==
  LET s == toUpperCase(m)
  IN IF s = "TW" \/ s = "US" THEN s ELSE null

normalizeSymbol(m, s) == IF m = "US" THEN toUpperCase(s) ELSE s

marketToCurrency(m) == IF m = "TW" THEN "TWD" ELSE "USD"

keyOf(market, symbol) == <<market, symbol>>

defaultLedger == [version |-> 1, lots |-> <<>>]

----------------------------------------------------------------------------
(* Timestamps *)

SecPerDay == 24 * 60 * 60

\* The dates of the model, day 1, 2, ... in the strict form YYYY-MM-DD.
DateStr == <<"2024-01-01", "2024-01-02", "2024-01-03", "2024-01-04">>

DayOf(d) == CHOOSE i \in 1..Len(DateStr) : DateStr[i] = d

\* Times in the strict forms HH:MM and HH:MM:SS with their second of day.
TimeHHMM   == ("00:00" :> 0) @@ ("09:00" :> 9 * 3600) @@ ("10:30" :> 10 * 3600 + 30 * 60)
TimeHHMMSS == ("09:00:00" :> 9 * 3600) @@ ("09:00:30" :> 9 * 3600 + 30)

NoTimestamp == [ok |-> FALSE, ts |-> 0]

\* parseTimestamp: null for a missing or malformed date or time, else the
\* timestamp `${d} ${time}`; a blank time is 00:00:00, HH:MM gets ":00".
parseTimestamp(dateStr, timeStr) ==
  IF \A i \in 1..Len(DateStr) : DateStr[i] # dateStr THEN NoTimestamp
  ELSE IF timeStr = "" THEN [ok |-> TRUE, ts |-> DayOf(dateStr) * SecPerDay]
  ELSE IF timeStr \in DOMAIN TimeHHMM
       THEN [ok |-> TRUE, ts |-> DayOf(dateStr) * SecPerDay + TimeHHMM[timeStr]]
  ELSE IF timeStr \in DOMAIN TimeHHMMSS
       THEN [ok |-> TRUE, ts |-> DayOf(dateStr) * SecPerDay + TimeHHMMSS[timeStr]]
  ELSE NoTimestamp

----------------------------------------------------------------------------
(* Exact arithmetic on rationals <<n, d>>, d > 0, in lowest terms *)

Abs(x) == IF x < 0 THEN -x ELSE x

RECURSIVE GCD(_, _)
GCD(a, b) == IF b = 0 THEN a ELSE GCD(b, a % b)

Rat(n, d) ==
  LET g == GCD(Abs(n), Abs(d))
      s == IF d < 0 THEN -1 ELSE 1
  IN <<(s * n) \div g, (s * d) \div g>>

R(i) == <<i, 1>>
RAdd(a, b) == Rat(a[1] * b[2] + b[1] * a[2], a[2] * b[2])
RSub(a, b) == Rat(a[1] * b[2] - b[1] * a[2], a[2] * b[2])
RMul(a, b) == Rat(a[1] * b[1], a[2] * b[2])
RDiv(a, b) == Rat(a[1] * b[2], a[2] * b[1])

----------------------------------------------------------------------------
(* Sorting *)

\* Array.prototype.sort((a,b)=>String(a.timestamp).localeCompare(
\* String(b.timestamp))): a stable sort by ascending timestamp.  The head of
\* the input precedes every record of its tail, so it is inserted before the
\* records of equal timestamp.
RECURSIVE InsertByTs(_, _)
InsertByTs(r, s) ==
  IF s = <<>> THEN <<r>>
  ELSE IF r.timestamp <= Head(s).timestamp THEN <<r>> \o s
  ELSE <<Head(s)>> \o InsertByTs(r, Tail(s))

\* The array left in the order it has.
Unsorted(s) == s

RECURSIVE SortByTimestamp(_)
SortByTimestamp(s) ==
  IF s = <<>> THEN <<>>
  ELSE InsertByTs(Head(s), SortByTimestamp(Tail(s)))

----------------------------------------------------------------------------
(* Position replay: buildLogForOne *)

ReplayStart ==
  [holdingQty |-> 0, avgCost |-> R(0), realizedPnl |-> R(0), timeline |-> <<>>]

\* BUY: totalCost = holdingQty*avgCost + q*px + fee; holdingQty += q;
\* avgCost = holdingQty>0 ? totalCost/holdingQty : 0.
BuyAvgNoFee(holdingQty, avgCost, q, px, fee) ==
  IF holdingQty + q > 0
    THEN RDiv(RAdd(RMul(R(holdingQty), avgCost), R(q * px)), R(holdingQty + q))
    ELSE R(0)

BuyAvg(holdingQty, avgCost, q, px, fee) ==
  IF holdingQty + q > 0
    THEN RDiv(RAdd(RAdd(RMul(R(holdingQty), avgCost), R(q * px)), R(fee)),
              R(holdingQty + q))
    ELSE R(0)

\* SELL: proceeds = q*px - fee; costBasis = q*avgCost;
\* realizedPnl += proceeds - costBasis.
SellRealizedFeeAdded(realizedPnl, avgCost, q, px, fee) ==
  RAdd(realizedPnl, RSub(R(q * px + fee), RMul(R(q), avgCost)))

SellRealized(realizedPnl, avgCost, q, px, fee) ==
  RAdd(realizedPnl, RSub(R(q * px - fee), RMul(R(q), avgCost)))

\* SELL: holdingQty -= q; if(holdingQty<=0){ holdingQty=0; avgCost=0; }
SellQtyNoClamp(holdingQty, q) == holdingQty - q

SellQty(holdingQty, q) == IF holdingQty - q <= 0 THEN 0 ELSE holdingQty - q

SellAvg(holdingQty, avgCost, q) == IF holdingQty - q <= 0 THEN R(0) ELSE avgCost

\* One iteration of the loop of buildLogForOne over record r.
ReplayStep(st, r) ==
  LET side == r.type
      q    == r.qty
      px   == r.price
      fee  == r.fee
      holdingQty ==
        IF side = "BUY" THEN st.holdingQty + q
        ELSE IF side = "SELL" THEN SellQty(st.holdingQty, q)
        ELSE st.holdingQty
      avgCost ==
        IF side = "BUY" THEN BuyAvg(st.holdingQty, st.avgCost, q, px, fee)
        ELSE IF side = "SELL" THEN SellAvg(st.holdingQty, st.avgCost, q)
        ELSE st.avgCost
      realizedPnl ==
        IF side = "SELL" THEN SellRealized(st.realizedPnl, st.avgCost, q, px, fee)
        ELSE st.realizedPnl
  IN [holdingQty  |-> holdingQty,
      avgCost     |-> avgCost,
      realizedPnl |-> realizedPnl,
      timeline    |-> Append(st.timeline,
                        [idx |-> Len(st.timeline) + 1, id |-> r.id,
                         ts |-> r.timestamp, side |-> side, q |-> q, px |-> px,
                         avg |-> avgCost, afterQty |-> holdingQty, fee |-> fee])]

RECURSIVE ReplayFrom(_, _)
ReplayFrom(st, rows) ==
  IF rows = <<>> THEN st ELSE ReplayFrom(ReplayStep(st, Head(rows)), Tail(rows))

OfInstrument(x, market, symbol) == x.market = market /\ x.symbol = symbol

\* A replay over the instrument's records in ledger order.
buildLogForOneUnsorted(ledgerObj, market, symbol) ==
  LET rows == SelectSeq(ledgerObj.lots, LAMBDA x : OfInstrument(x, market, symbol))
      end  == ReplayFrom(ReplayStart, rows)
  IN [currency    |-> marketToCurrency(market),
      holdingQty  |-> end.holdingQty,
      avgCost     |-> end.avgCost,
      realizedPnl |-> end.realizedPnl,
      rows        |-> end.timeline]

buildLogForOne(ledgerObj, market, symbol) ==
  LET rows == SortByTimestamp(
                SelectSeq(ledgerObj.lots, LAMBDA x : OfInstrument(x, market, symbol)))
      end  == ReplayFrom(ReplayStart, rows)
  IN [currency    |-> marketToCurrency(market),
      holdingQty  |-> end.holdingQty,
      avgCost     |-> end.avgCost,
      realizedPnl |-> end.realizedPnl,
      rows        |-> end.timeline]

----------------------------------------------------------------------------
(* Holdings aggregation: computeHoldings *)

\* map[key] = {market, symbol, currency, qty:0, avg:0, realized:0}
NewPos(market, symbol) ==
  [market |-> market, symbol |-> symbol, currency |-> marketToCurrency(market),
   qty |-> 0, avg |-> R(0), realized |-> R(0)]

\* BUY: totalCost = pos.qty*pos.avg + q*px + fee; pos.qty += q;
\* pos.avg = pos.qty>0 ? totalCost/pos.qty : 0.
PosBuy(pos, q, px, fee) ==
  LET totalCost == RAdd(RMul(R(pos.qty), pos.avg), R(q * px + fee))
      qty       == pos.qty + q
  IN [pos EXCEPT !.qty = qty,
                 !.avg = IF qty > 0 THEN RDiv(totalCost, R(qty)) ELSE R(0)]

\* A SELL that leaves the position as the subtraction gives it.
PosSellNoClamp(pos, q, px, fee) ==
  [pos EXCEPT !.realized = RAdd(pos.realized,
                                RSub(R(q * px - fee), RMul(R(q), pos.avg))),
              !.qty = pos.qty - q]

\* SELL: pos.realized += (q*px - fee) - q*pos.avg; pos.qty -= q;
\* if(pos.qty<=0){ pos.qty=0; pos.avg=0; }
PosSell(pos, q, px, fee) ==
  LET proceeds  == R(q * px - fee)
      costBasis == RMul(R(q), pos.avg)
      qty       == pos.qty - q
  IN [pos EXCEPT !.realized = RAdd(pos.realized, RSub(proceeds, costBasis)),
                 !.qty = IF qty <= 0 THEN 0 ELSE qty,
                 !.avg = IF qty <= 0 THEN R(0) ELSE pos.avg]

\* One iteration of the loop of computeHoldings: map holds the positions by
\* key, order the keys in the order they were first set.
HoldingsStep(acc, r) ==
  LET key   == keyOf(r.market, r.symbol)
      known == key \in DOMAIN acc.map
      pos   == IF known THEN acc.map[key] ELSE NewPos(r.market, r.symbol)
      next  == IF r.type = "BUY" THEN PosBuy(pos, r.qty, r.price, r.fee)
               ELSE IF r.type = "SELL" THEN PosSell(pos, r.qty, r.price, r.fee)
               ELSE pos
  IN [map   |-> [k \in DOMAIN acc.map \cup {key} |->
                   IF k = key THEN next ELSE acc.map[k]],
      order |-> IF known THEN acc.order ELSE Append(acc.order, key)]

RECURSIVE HoldingsFrom(_, _)
HoldingsFrom(acc, recs) ==
  IF recs = <<>> THEN acc
  ELSE HoldingsFrom(HoldingsStep(acc, Head(recs)), Tail(recs))

\* The map of computeHoldings when its loop ends.
computeHoldingsMap(ledgerObj) ==
  HoldingsFrom([map |-> <<>>, order |-> <<>>], SortByTimestamp(ledgerObj.lots))

\* Math.abs(x) > 0.000001 on a rational x.
AbsAboveMicro(x) ==
  x[1] # 0 /\ (Abs(x[1]) >= x[2] \/ Abs(x[1]) * 1000000 > x[2])

\* A filter that keeps open positions only.
IsShownOpenOnly(p) == p.qty > 0

\* p.qty>0 || Math.abs(p.realized)>0.000001
IsShown(p) == p.qty > 0 \/ AbsAboveMicro(p.realized)

\* Object.values(map).filter(...): the positions in insertion order.
computeHoldings(ledgerObj) ==
  LET acc == computeHoldingsMap(ledgerObj)
  IN SelectSeq([i \in 1..Len(acc.order) |-> acc.map[acc.order[i]]], IsShown)

----------------------------------------------------------------------------
(* The strict checks *)

ValidateStart == [ok |-> TRUE, holdingQty |-> 0, ts |-> 0, q |-> 0, reason |-> "none"]

\* String(r.timestamp).slice(0,16): the timestamp without its seconds.
Slice16(ts) == ts - (ts % 60)

\* An iteration that reports the holding the sale would leave.
ValidateStepReportsAfter(st, r) ==
  IF ~st.ok THEN st
  ELSE IF r.qty <= 0
    THEN [st EXCEPT !.ok = FALSE, !.ts = Slice16(r.timestamp), !.q = r.qty,
                    !.reason = "quantity"]
  ELSE IF r.type = "BUY"
    THEN [st EXCEPT !.holdingQty = st.holdingQty + r.qty]
  ELSE IF r.type = "SELL"
    THEN IF r.qty > st.holdingQty
           THEN [st EXCEPT !.ok = FALSE, !.ts = Slice16(r.timestamp), !.q = r.qty,
                           !.holdingQty = st.holdingQty - r.qty,
                           !.reason = "oversell"]
           ELSE [st EXCEPT !.holdingQty = st.holdingQty - r.qty]
  ELSE st

\* One iteration of the loop of validateNoOversell; a rejection is final.
\* The message of a rejection carries ts, and for an oversell q and
\* holdingQty as well.
ValidateStep(st, r) ==
  IF ~st.ok THEN st
  ELSE IF r.qty <= 0
    THEN [st EXCEPT !.ok = FALSE, !.ts = Slice16(r.timestamp), !.q = r.qty,
                    !.reason = "quantity"]
  ELSE IF r.type = "BUY"
    THEN [st EXCEPT !.holdingQty = st.holdingQty + r.qty]
  ELSE IF r.type = "SELL"
    THEN IF r.qty > st.holdingQty
           THEN [st EXCEPT !.ok = FALSE, !.ts = Slice16(r.timestamp), !.q = r.qty,
                           !.reason = "oversell"]
           ELSE [st EXCEPT !.holdingQty = st.holdingQty - r.qty]
  ELSE st

RECURSIVE ValidateFrom(_, _)
ValidateFrom(st, rows) ==
  IF rows = <<>> THEN st ELSE ValidateFrom(ValidateStep(st, Head(rows)), Tail(rows))

\* The check run over the instrument's records in ledger order.
validateNoOversellUnsorted(ledgerObj, market, symbol) ==
  ValidateFrom(ValidateStart,
    SelectSeq(ledgerObj.lots, LAMBDA x : OfInstrument(x, market, symbol)))

\* {ok:true} or {ok:false, msg}; the message carries the timestamp, the
\* requested quantity and the holding at that instant.
validateNoOversell(ledgerObj, market, symbol) ==
  ValidateFrom(ValidateStart,
    SortByTimestamp(
      SelectSeq(ledgerObj.lots, LAMBDA x : OfInstrument(x, market, symbol))))

NoNegative == [found |-> FALSE, market |-> null, symbol |-> null, ts |-> 0]

\* The loop of findNegativeHoldings from holdings map `map` over `recs`.
RECURSIVE NegativeFrom(_, _)
NegativeFrom(map, recs) ==
  IF recs = <<>> THEN NoNegative
  ELSE LET r    == Head(recs)
           key  == keyOf(r.market, r.symbol)
           cur  == IF key \in DOMAIN map THEN map[key] ELSE 0
           next == IF r.type = "BUY" THEN cur + r.qty ELSE cur - r.qty
       IN IF next < 0
            THEN [found |-> TRUE, market |-> r.market, symbol |-> r.symbol,
                  ts |-> r.timestamp]
            ELSE NegativeFrom([k \in DOMAIN map \cup {key} |->
                                 IF k = key THEN next ELSE map[k]],
                              Tail(recs))

\* A scan of the records of one instrument only, that of the latest record.
findNegativeHoldingsOfLatest(ledgerObj) ==
  LET recs == SortByTimestamp(ledgerObj.lots)
      key  == keyOf(recs[Len(recs)].market, recs[Len(recs)].symbol)
  IN IF recs = <<>> THEN NoNegative
     ELSE NegativeFrom(<<>>, SelectSeq(recs, LAMBDA x : keyOf(x.market, x.symbol) = key))

\* A scan of the records in ledger order.
findNegativeHoldingsUnsorted(ledgerObj) ==
  NegativeFrom(<<>>, ledgerObj.lots)

findNegativeHoldings(ledgerObj) ==
  NegativeFrom(<<>>, SortByTimestamp(ledgerObj.lots))

----------------------------------------------------------------------------
(* Storage *)

JSONstringify(obj) == [json |-> obj]
JSONparse(raw) == raw.json

HasItem(ls, key) == key \in DOMAIN ls
setItem(ls, key, raw) == [k \in DOMAIN ls \cup {key} |-> IF k = key THEN raw ELSE ls[k]]

\* A raw text JSON.parse accepts; any other text makes it throw.
Parses(raw) == "json" \in DOMAIN raw

\* Array.isArray(obj.lots): a document either carries a lots array or no
\* lots at all.
HasLotsArray(obj) == "lots" \in DOMAIN obj

\* obj.lots = Array.isArray(obj.lots) ? obj.lots : []
WithLots(obj) ==
  IF HasLotsArray(obj) THEN obj
  ELSE [k \in DOMAIN obj \cup {"lots"} |-> IF k = "lots" THEN <<>> ELSE obj[k]]

\* loadLedger: the parsed primary document with its lots made an array, or
\* the default ledger when the primary key is absent or its text does not
\* parse (the catch).
loadLedger(ls) ==
  IF HasItem(ls, STORAGE_KEY)
    THEN IF Parses(ls[STORAGE_KEY]) THEN WithLots(JSONparse(ls[STORAGE_KEY]))
         ELSE defaultLedger
    ELSE defaultLedger

\* The document saveLedger stamps with lastSaved = nowTS() and writes.
Stamped(ledgerObj, now) ==
  [version |-> ledgerObj.version, lots |-> ledgerObj.lots, lastSaved |-> now]

saveLedger(ls, ledgerObj, now) ==
  setItem(ls, STORAGE_KEY, JSONstringify(Stamped(ledgerObj, now)))

\* idbSet(key, value): store.put(value, key)
idbSet(db, key, value) == [k \in DOMAIN db \cup {key} |-> IF k = key THEN value ELSE db[k]]

\* idbGet(key): req.result ?? null.  The result is a sequence: <<raw>> for
\* a stored text, <<>> for null.
idbGet(db, key) == IF key \in DOMAIN db THEN <<db[key]>> ELSE <<>>

\* The backup saveLedger fires after the primary write: the same raw text
\* under the same key.  The put is taken to land with the handler.
saveLedgerBackup(db, ledgerObj, now) ==
  idbSet(db, STORAGE_KEY, JSONstringify(Stamped(ledgerObj, now)))

\* hydrateFromIDBIfNeeded has returned: nothing is awaited.
HydrateDone == [pc |-> "done", idbRaw |-> <<>>]

\* hydrateFromIDBIfNeeded up to its await: it returns at once when the
\* primary key holds a text, and waits for idbGet otherwise.
HydrateStart(ls) ==
  IF HasItem(ls, STORAGE_KEY) THEN HydrateDone ELSE [pc |-> "get", idbRaw |-> <<>>]

Ids(lots) == {lots[i].id : i \in 1..Len(lots)}

\* uuid(): an identifier no record carries; the model takes the least one.
uuid(lots) == CHOOSE n \in 1..(Len(lots) + 1) :
                n \notin Ids(lots) /\ \A m \in 1..(n - 1) : m \in Ids(lots)

findIndex(lots, tid) ==
  IF tid \in Ids(lots) THEN CHOOSE i \in 1..Len(lots) :
                             lots[i].id = tid /\ \A j \in 1..(i - 1) : lots[j].id # tid
  ELSE 0

----------------------------------------------------------------------------
(* CSV import: field normalizers *)

\* Lenient date forms of the model's days: YYYY/MM/DD and YYYYMMDD.
DateSlash   == <<"2024/01/01", "2024/01/02", "2024/01/03", "2024/01/04">>
DateCompact == <<"20240101", "20240102", "20240103", "20240104">>

normalizeCsvSide(v) ==
  LET s == toUpperCase(v)
  IN IF s = "" THEN null
     ELSE IF s = "BUY" \/ s = "B" THEN "BUY"
     ELSE IF s = "SELL" \/ s = "S" THEN "SELL"
     ELSE null

normalizeCsvDate(v) ==
  IF v = "" THEN null
  ELSE IF \E i \in 1..Len(DateStr) : v \in {DateStr[i], DateSlash[i], DateCompact[i]}
    THEN DateStr[CHOOSE i \in 1..Len(DateStr) :
                   v \in {DateStr[i], DateSlash[i], DateCompact[i]}]
  ELSE null

normalizeCsvTime(v) ==
  IF v = "" THEN "09:00"
  ELSE IF v = "9:00" THEN "09:00"
  ELSE IF v = "09:00:00" \/ v = "09:00:30" THEN "09:00"
  ELSE IF v \in DOMAIN TimeHHMM THEN v
  ELSE null

\* The characters of the symbols of the model.
Chars ==
  ("2330" :> <<"2", "3", "3", "0">>) @@ ("0050" :> <<"0", "0", "5", "0">>) @@
  ("123" :> <<"1", "2", "3">>) @@ ("1234567" :> <<"1", "2", "3", "4", "5", "6", "7">>) @@
  ("aapl" :> <<"a", "a", "p", "l">>) @@ ("AAPL" :> <<"A", "A", "P", "L">>)

Digits == {"0", "1", "2", "3", "4", "5", "6", "7", "8", "9"}

\* Symbols that are digits whatever their number.
NumericAny == {sy \in DOMAIN Chars : \A i \in 1..Len(Chars[sy]) : Chars[sy][i] \in Digits}

\* Symbols of the model that match /^\d{4,6}$/.
Numeric4to6 ==
  {sy \in DOMAIN Chars :
     /\ Len(Chars[sy]) >= 4 /\ Len(Chars[sy]) <= 6
     /\ \A i \in 1..Len(Chars[sy]) : Chars[sy][i] \in Digits}

inferMarketFromSymbol(symbol) == IF symbol \in Numeric4to6 THEN "TW" ELSE "US"

\* A key that tells records apart by their identifier too.
recDedupeKeyWithId(rec) ==
  <<rec.id, rec.market, rec.symbol, rec.type, rec.timestamp, rec.qty, rec.price,
    rec.fee>>

\* A key that leaves the quantity out.
recDedupeKeyNoQty(rec) ==
  <<rec.market, rec.symbol, rec.type, rec.timestamp, rec.price, rec.fee>>

\* [market, symbol, type, timestamp, qty, price, fee ?? 0].join("|"): the id
\* is not part of the key.
recDedupeKey(rec) ==
  <<rec.market, rec.symbol, rec.type, rec.timestamp, rec.qty, rec.price, rec.fee>>

----------------------------------------------------------------------------
(* CSV import: importCsvIntoLedger *)

\* A test that takes a row without symbol for a blank one.
IsBlankRowNoSymbol(row) == row.symbol = ""

\* row.every(v => String(v||"").trim() === "")
IsBlankRow(row) ==
  /\ row.market = "" /\ row.symbol = "" /\ row.side = "" /\ row.date = ""
  /\ row.time = "" /\ row.qty = "" /\ row.price = "" /\ row.fee = ""

\* The body of the row loop: st holds the lots, the set of dedup keys and the
\* counters; the result is st after row `row`.
ImportRow(st, row) ==
  LET symbol0 == row.symbol
      market0 == IF row.market # "" THEN normalizeMarket(row.market)
                 ELSE inferMarketFromSymbol(symbol0)
      symbol  == normalizeSymbol(market0, symbol0)
      side    == normalizeCsvSide(row.side)
      date    == normalizeCsvDate(row.date)
      time    == normalizeCsvTime(row.time)
      ts      == parseTimestamp(date, time)
      qty     == toNumber(row.qty, NaN)
      price   == toNumber(row.price, NaN)
      fee     == IF row.fee = "" THEN Num(0) ELSE toNumber(row.fee, NaN)
      rec     == [id |-> uuid(st.lots), timestamp |-> ts.ts, market |-> market0,
                  symbol |-> symbol, type |-> side, qty |-> qty.val,
                  price |-> price.val, fee |-> fee.val]
      k       == recDedupeKey(rec)
      error   == [st EXCEPT !.errors = st.errors + 1]
  IN IF IsBlankRow(row) THEN st
     ELSE IF symbol0 = "" THEN error
     ELSE IF side = null THEN error
     ELSE IF date = null THEN error
     ELSE IF time = null THEN error
     ELSE IF ~ts.ok THEN error
     ELSE IF ~IsFinite(qty) \/ qty.val <= 0 THEN error
     ELSE IF ~IsFinite(price) \/ price.val <= 0 THEN error
     ELSE IF row.fee # "" /\ (~IsFinite(fee) \/ fee.val < 0) THEN error
     ELSE IF k \in st.existing THEN [st EXCEPT !.skipped = st.skipped + 1]
     ELSE [st EXCEPT !.lots = Append(st.lots, rec),
                     !.existing = st.existing \cup {k},
                     !.imported = st.imported + 1]

RECURSIVE ImportRows(_, _)
ImportRows(st, rows) ==
  IF rows = <<>> THEN st ELSE ImportRows(ImportRow(st, Head(rows)), Tail(rows))

\* importCsvIntoLedger on in-memory ledger `ledgerObj` at time `now`, over
\* the data rows parseCsv returns.  outcome is "empty" (throws before any
\* change), "rollback" (throws after restoring the snapshot) or "ok";
\* ledger is the in-memory ledger afterwards and saved tells whether
\* saveLedger(ledger) ran.
importCsvIntoLedger(ledgerObj, rows, now) ==
  LET snapshot == JSONstringify(ledgerObj)
      start    == [lots |-> ledgerObj.lots,
                   existing |-> {recDedupeKey(ledgerObj.lots[i]) :
                                   i \in 1..Len(ledgerObj.lots)},
                   imported |-> 0, skipped |-> 0, errors |-> 0]
      end      == ImportRows(start, rows)
      merged   == [ledgerObj EXCEPT !.lots = SortByTimestamp(end.lots)]
      invalid  == findNegativeHoldings(merged)
  IN IF rows = <<>>
       THEN [outcome |-> "empty", saved |-> FALSE, ledger |-> ledgerObj,
             imported |-> 0, skipped |-> 0, errors |-> 0, invalid |-> NoNegative]
     ELSE IF invalid.found
       THEN [outcome |-> "rollback", saved |-> TRUE,
             ledger |-> Stamped(JSONparse(snapshot), now),
             imported |-> end.imported, skipped |-> end.skipped,
             errors |-> end.errors, invalid |-> invalid]
     ELSE [outcome |-> "ok", saved |-> TRUE, ledger |-> Stamped(merged, now),
           imported |-> end.imported, skipped |-> end.skipped,
           errors |-> end.errors, invalid |-> invalid]

----------------------------------------------------------------------------
(* Handlers *)

Op(name, outcome) == [name |-> name, outcome |-> outcome]

\* A handler that returns early: nothing but the history changes.
Returns(name, outcome) ==
  /\ lastOp' = Op(name, outcome)
  /\ UNCHANGED <<ledger, localStorage, clock, lastQueryLog, lastQueryMarket,
                 lastQuerySymbol, idb, hydrate>>

\* The wall clock advances by one second.
Tick ==
  /\ clock < MaxClock
  /\ clock' = clock + 1
  /\ lastOp' = Op("tick", "ok")
  /\ UNCHANGED <<ledger, localStorage, lastQueryLog, lastQueryMarket,
                 lastQuerySymbol, idb, hydrate>>

\* The SELL guard of addTrade: the check that decides whether a SELL of qty
\* is refused, against the holding buildLogForOne reports.
AddSellRefused(ledgerObj, market, symbol, qty) ==
  qty > buildLogForOne(ledgerObj, market, symbol).holdingQty

\* addTrade with the values of the form fields f_market ... f_fee.
AddTrade(f_market, f_side, f_symbol, f_date, f_time, f_qty, f_price, f_fee) ==
  LET market == normalizeMarket(f_market)
      side   == f_side
      symbol == normalizeSymbol(market, f_symbol)
      ts     == parseTimestamp(f_date, f_time)
      qty    == toNumber(f_qty, NaN)
      price  == toNumber(f_price, NaN)
      fee    == toNumber(f_fee, Num(0))
      rec    == [id |-> uuid(ledger.lots), timestamp |-> ts.ts, market |-> market,
                 symbol |-> symbol, type |-> side, qty |-> qty.val,
                 price |-> price.val, fee |-> fee.val]
      pushed == [ledger EXCEPT !.lots = Append(ledger.lots, rec)]
  IN IF market = null THEN Returns("addTrade", "invalid")
     ELSE IF symbol = "" THEN Returns("addTrade", "invalid")
     ELSE IF ~ts.ok THEN Returns("addTrade", "invalid")
     ELSE IF ~IsFinite(qty) \/ qty.val <= 0 THEN Returns("addTrade", "invalid")
     ELSE IF ~IsFinite(price) \/ price.val <= 0 THEN Returns("addTrade", "invalid")
     ELSE IF side = "SELL" /\ AddSellRefused(ledger, market, symbol, qty.val)
       THEN Returns("addTrade", "oversell")
     ELSE /\ Len(ledger.lots) < MaxLots
          /\ localStorage' = saveLedger(localStorage, pushed, clock)
          /\ idb' = saveLedgerBackup(idb, pushed, clock)
          /\ ledger' = loadLedger(localStorage')
          /\ lastOp' = Op("addTrade", "ok")
          /\ UNCHANGED <<clock, lastQueryLog, lastQueryMarket, lastQuerySymbol,
                         hydrate>>

\* An edit that also makes the record a purchase.
EditedAsBuy(rr, nextTs, nextQty, nextPrice, nextFee) ==
  [rr EXCEPT !.timestamp = nextTs, !.qty = nextQty, !.price = nextPrice,
             !.fee = nextFee, !.type = "BUY"]

\* The record with identifier tid carrying the edited fields.
Edited(rr, nextTs, nextQty, nextPrice, nextFee) ==
  [rr EXCEPT !.timestamp = nextTs, !.qty = nextQty, !.price = nextPrice,
             !.fee = nextFee]

\* The check edit-save runs on the edited copy before it commits.
EditCheck(nextLedger, market, symbol) == validateNoOversell(nextLedger, market, symbol)

\* An edit applied to the ledger in memory.
EditReloadStale(ls, mem) == mem

\* const nextLedger = loadLedger(): the copy onSave edits is reloaded from
\* the primary document, whatever the ledger in memory holds.
EditReload(ls, mem) == loadLedger(ls)

\* showTradeDetails(tid) followed by its onSave with the editor's fields.
EditSave(tid, ui_date, ui_time, ui_qty, ui_price, ui_fee) ==
  LET nextTs    == parseTimestamp(ui_date, ui_time)
      nextQty   == toNumber(ui_qty, NaN)
      nextPrice == toNumber(ui_price, NaN)
      nextFee   == IF ui_fee = "" THEN Num(0) ELSE toNumber(ui_fee, NaN)
      loaded    == EditReload(localStorage, ledger)
      j         == findIndex(loaded.lots, tid)
      rr        == Edited(loaded.lots[j], nextTs.ts, nextQty.val, nextPrice.val,
                          nextFee.val)
      nextLedger == [loaded EXCEPT !.lots[j] = rr]
      v         == EditCheck(nextLedger, rr.market, rr.symbol)
      refresh   == /\ lastQueryMarket # null /\ lastQueryMarket # ""
                   /\ lastQuerySymbol # null /\ lastQuerySymbol # ""
                   /\ normalizeMarket(lastQueryMarket) = normalizeMarket(rr.market)
                   /\ normalizeSymbol(rr.market, lastQuerySymbol)
                        = normalizeSymbol(rr.market, rr.symbol)
  IN /\ findIndex(ledger.lots, tid) > 0
     /\ IF ~nextTs.ok THEN Returns("editSave", "invalid")
        ELSE IF ~IsFinite(nextQty) \/ nextQty.val <= 0 THEN Returns("editSave", "invalid")
        ELSE IF ~IsFinite(nextPrice) \/ nextPrice.val <= 0 THEN Returns("editSave", "invalid")
        ELSE IF ~IsFinite(nextFee) \/ nextFee.val < 0 THEN Returns("editSave", "invalid")
        ELSE IF j = 0 THEN Returns("editSave", "missing")
        ELSE IF ~v.ok THEN Returns("editSave", "oversell")
        ELSE /\ localStorage' = saveLedger(localStorage, nextLedger, clock)
             /\ idb' = saveLedgerBackup(idb, nextLedger, clock)
             /\ ledger' = loadLedger(localStorage')
             /\ IF refresh
                  THEN /\ lastQueryLog' = buildLogForOne(Stamped(nextLedger, clock),
                                             normalizeMarket(rr.market),
                                             normalizeSymbol(rr.market, rr.symbol))
                       /\ lastQueryMarket' = normalizeMarket(rr.market)
                       /\ lastQuerySymbol' = normalizeSymbol(rr.market, rr.symbol)
                  ELSE UNCHANGED <<lastQueryLog, lastQueryMarket, lastQuerySymbol>>
             /\ lastOp' = Op("editSave", "ok")
             /\ UNCHANGED <<clock, hydrate>>

\* lots.splice(idx): the record at idx and all that follow are removed.
SpliceToEnd(lots, idx) == SubSeq(lots, 1, idx - 1)

\* lots.splice(idx, 1)
Splice(lots, idx) == SubSeq(lots, 1, idx - 1) \o SubSeq(lots, idx + 1, Len(lots))

\* What deleteTradeById does to the lots once the user has confirmed.
DeleteApplied(ledgerObj, idx) == [ledgerObj EXCEPT !.lots = Splice(ledgerObj.lots, idx)]

\* deleteTradeById(tid); tid = 0 is the empty identifier, confirmed is the
\* answer to confirm(), q_market and q_symbol are the query form's fields.
DeleteTrade(tid, confirmed, q_market, q_symbol) ==
  LET idx     == findIndex(ledger.lots, tid)
      removed == DeleteApplied(ledger, idx)
      qm      == normalizeMarket(q_market)
      qs      == normalizeSymbol(qm, q_symbol)
  IN IF tid = 0 THEN Returns("deleteTradeById", "noid")
     ELSE IF idx = 0 THEN Returns("deleteTradeById", "missing")
     ELSE IF ~confirmed THEN Returns("deleteTradeById", "declined")
     ELSE /\ localStorage' = saveLedger(localStorage, removed, clock)
          /\ idb' = saveLedgerBackup(idb, removed, clock)
          /\ ledger' = loadLedger(localStorage')
          /\ IF qm # null /\ qs # ""
               THEN /\ lastQueryLog' = buildLogForOne(removed, qm, qs)
                    /\ lastQueryMarket' = qm
                    /\ lastQuerySymbol' = qs
               ELSE UNCHANGED <<lastQueryLog, lastQueryMarket, lastQuerySymbol>>
          /\ lastOp' = Op("deleteTradeById", "ok")
          /\ UNCHANGED <<clock, hydrate>>

\* The ledger never holds more than MaxLots records.
ImportFits(rows) == Len(ledger.lots) + Len(rows) <= MaxLots

\* The change handler of file_import_csv over the data rows of the file:
\* importCsvIntoLedger, then refreshHoldings unless it threw.
ImportCsv(rows) ==
  LET res == importCsvIntoLedger(ledger, rows, clock)
  IN /\ ImportFits(rows)
     /\ IF res.outcome = "empty" THEN Returns("importCsv", "empty")
        ELSE IF res.outcome = "rollback"
          THEN /\ ledger' = res.ledger
               /\ localStorage' = saveLedger(localStorage, res.ledger, clock)
               /\ idb' = saveLedgerBackup(idb, res.ledger, clock)
               /\ lastOp' = Op("importCsv", "rollback")
               /\ UNCHANGED <<clock, lastQueryLog, lastQueryMarket, lastQuerySymbol,
                              hydrate>>
        ELSE /\ localStorage' = saveLedger(localStorage, res.ledger, clock)
             /\ idb' = saveLedgerBackup(idb, res.ledger, clock)
             /\ ledger' = loadLedger(localStorage')
             /\ lastOp' = [name |-> "importCsv", outcome |-> "ok",
                           imported |-> res.imported, skipped |-> res.skipped,
                           errors |-> res.errors]
             /\ UNCHANGED <<clock, lastQueryLog, lastQueryMarket, lastQuerySymbol,
                            hydrate>>

\* refreshHoldings: the ledger is reloaded and the holdings table is
\* computed from it.
RefreshHoldings ==
  /\ ledger' = loadLedger(localStorage)
  /\ lastOp' = [name |-> "refreshHoldings", outcome |-> "ok",
                holdings |-> computeHoldings(ledger')]
  /\ UNCHANGED <<localStorage, clock, lastQueryLog, lastQueryMarket,
                 lastQuerySymbol, idb, hydrate>>

\* The click handler of btn_query: renderQuery(market, symbol).
Query(q_market, q_symbol) ==
  LET market == normalizeMarket(q_market)
      symbol == normalizeSymbol(market, q_symbol)
  IN IF symbol = "" THEN Returns("query", "symbol")
     ELSE /\ lastQueryLog' = buildLogForOne(ledger, market, symbol)
          /\ lastQueryMarket' = market
          /\ lastQuerySymbol' = symbol
          /\ lastOp' = Op("query", "ok")
          /\ UNCHANGED <<ledger, localStorage, clock, idb, hydrate>>

removeItem(ls, key) == [k \in DOMAIN ls \ {key} |-> ls[k]]

\* The change handler of file_import over the text of the chosen file: the
\* document is stored as {version: 1, lots} without a backup put, and the
\* ledger is reloaded.
ImportJson(txt) ==
  LET obj == JSONparse(txt)
  IN IF ~Parses(txt) THEN Returns("importJson", "failed")
     ELSE IF ~HasLotsArray(obj) THEN Returns("importJson", "failed")
     ELSE /\ Len(obj.lots) <= MaxLots
          /\ localStorage' = setItem(localStorage, STORAGE_KEY,
                                JSONstringify([version |-> 1, lots |-> obj.lots]))
          /\ ledger' = loadLedger(localStorage')
          /\ lastOp' = Op("importJson", "ok")
          /\ UNCHANGED <<clock, lastQueryLog, lastQueryMarket, lastQuerySymbol,
                         idb, hydrate>>

\* A reset that removes the primary document and leaves the ledger in
\* memory as it was.
ResetKeepsMemory(confirmed) ==
  IF ~confirmed THEN Returns("reset", "declined")
  ELSE /\ localStorage' = removeItem(localStorage, STORAGE_KEY)
       /\ lastQueryLog' = null
       /\ lastOp' = Op("reset", "ok")
       /\ UNCHANGED <<ledger, clock, lastQueryMarket, lastQuerySymbol, idb, hydrate>>

\* The click handler of btn_reset; confirmed is the answer to confirm().
Reset(confirmed) ==
  IF ~confirmed THEN Returns("reset", "declined")
  ELSE /\ localStorage' = removeItem(localStorage, STORAGE_KEY)
       /\ ledger' = loadLedger(localStorage')
       /\ lastQueryLog' = null
       /\ lastOp' = Op("reset", "ok")
       /\ UNCHANGED <<clock, lastQueryMarket, lastQuerySymbol, idb, hydrate>>


\* saveLedger run by another page of the application on the same origin:
\* the primary document and the backup are shared, the ledger in memory of
\* this page is not touched.
OtherTabSaves(lots) ==
  /\ localStorage' = saveLedger(localStorage, [version |-> 1, lots |-> lots], clock)
  /\ idb' = saveLedgerBackup(idb, [version |-> 1, lots |-> lots], clock)
  /\ lastOp' = Op("otherTab", "ok")
  /\ UNCHANGED <<ledger, clock, lastQueryLog, lastQueryMarket, lastQuerySymbol, hydrate>>

\* The page is loaded again: the module-level state is initialised anew
\* from the primary document, and the init function calls
\* hydrateFromIDBIfNeeded; localStorage and IndexedDB are what the last page
\* left.
PageLoad ==
  /\ ledger' = loadLedger(localStorage)
  /\ lastQueryLog' = null
  /\ lastQueryMarket' = null
  /\ lastQuerySymbol' = null
  /\ hydrate' = HydrateStart(localStorage)
  /\ lastOp' = Op("pageLoad", "ok")
  /\ UNCHANGED <<localStorage, idb, clock>>

\* The get request of idbGet is served: its result is what the store holds
\* under the key at this moment.  The promise is resolved, the awaiting
\* function has not resumed yet.
IdbGetResolves ==
  /\ hydrate.pc = "get"
  /\ hydrate' = [pc |-> "resume", idbRaw |-> idbGet(idb, STORAGE_KEY)]
  /\ lastOp' = Op("idbGet", "ok")
  /\ UNCHANGED <<ledger, localStorage, clock, lastQueryLog, lastQueryMarket,
                 lastQuerySymbol, idb>>

\* hydrateFromIDBIfNeeded from its await to its return, followed by the
\* refreshHoldings of the init function that awaited it.
HydrateResume ==
  LET idbRaw   == hydrate.idbRaw
      obj      == JSONparse(idbRaw[1])
      restores == /\ Len(idbRaw) > 0
                  /\ Parses(idbRaw[1])
                  /\ HasLotsArray(obj)
                  /\ Len(obj.lots) > 0
  IN /\ hydrate.pc = "resume"
     /\ hydrate' = HydrateDone
     /\ localStorage' = IF restores
                          THEN setItem(localStorage, STORAGE_KEY, JSONstringify(obj))
                          ELSE localStorage
     /\ ledger' = loadLedger(localStorage')
     /\ lastOp' = Op("hydrate", IF restores THEN "restored" ELSE "none")
     /\ UNCHANGED <<clock, lastQueryLog, lastQueryMarket, lastQuerySymbol, idb>>

----------------------------------------------------------------------------
(* Inputs *)

NumeralOf(i) == CHOOSE s \in DOMAIN Numerals : Numerals[s] = i

Days     == 1..MaxDay
QtyText  == {NumeralOf(i) : i \in 1..MaxQty}

\* Values of the add form: TW 2330 on a date with a blank time and a small
\* quantity, US aapl on day 1 at 09:00, price 1 and a blank fee; and one form
\* for each validation message.
AddForm(m, sd, sy, d, t, q, p, f) ==
  [f_market |-> m, f_side |-> sd, f_symbol |-> sy, f_date |-> d, f_time |-> t,
   f_qty |-> q, f_price |-> p, f_fee |-> f]

AddForms ==
  {AddForm("TW", sd, "2330", DateStr[d], "", q, "1", "") :
     sd \in {"BUY", "SELL"}, d \in Days, q \in QtyText}
  \cup {AddForm("US", sd, "aapl", DateStr[1], "09:00", "1", "1", "") :
          sd \in {"BUY", "SELL"}}
  \cup {AddForm("HK", "BUY", "2330", DateStr[1], "", "1", "1", ""),
        AddForm("TW", "BUY", "", DateStr[1], "", "1", "1", ""),
        AddForm("TW", "BUY", "2330", "2024-1-1", "", "1", "1", ""),
        AddForm("TW", "BUY", "2330", DateStr[1], "", "abc", "1", ""),
        AddForm("TW", "BUY", "2330", DateStr[1], "", "1", "0", "")}

\* Values of the add form that differ in the fee field only: a negative
\* number, a text that is no number, and an explicit 0.
FeeForms ==
  {AddForm("TW", "BUY", "2330", DateStr[1], "", "1", "1", f) : f \in {"-1", "abc", "0"}}

EditForm(d, t, q, p, f) ==
  [ui_date |-> d, ui_time |-> t, ui_qty |-> q, ui_price |-> p, ui_fee |-> f]

EditForms ==
  {EditForm(DateStr[d], "", q, "1", "0") : d \in Days, q \in QtyText}
  \cup {EditForm("", "", "1", "1", "0"), EditForm(DateStr[1], "", "0", "1", "0"),
        EditForm(DateStr[1], "", "1", "abc", "0"), EditForm(DateStr[1], "", "1", "1", "-1")}

CsvRow(m, sy, sd, d, t, q, p, f) ==
  [market |-> m, symbol |-> sy, side |-> sd, date |-> d, time |-> t,
   qty |-> q, price |-> p, fee |-> f]

\* Data rows of a CSV file: no market column value, the lenient side and
\* date forms, 2330 at 00:00 bought in any small quantity or sold one at a
\* time, aapl with a blank time; a row without symbol and an all-blank row.
CsvRows ==
  {CsvRow("", "2330", "B", DateSlash[d], "00:00", q, "1", "") : d \in Days, q \in QtyText}
  \cup {CsvRow("", "2330", "sell", DateSlash[d], "00:00", "1", "1", "") : d \in Days}
  \cup {CsvRow("", "aapl", "B", DateCompact[1], "", "1", "1", ""),
        CsvRow("", "", "B", DateSlash[1], "", "1", "1", ""),
        CsvRow("", "", "", "", "", "", "", "")}

\* Data rows that differ in the market column and the shape of the symbol:
\* no market, a known code in either case, a code that is not known; a
\* symbol of 4 digits, of 3, of 7, and one of letters.
MarketRows ==
  {CsvRow(m, sy, "B", DateSlash[1], "00:00", "1", "1", "") :
     m \in {"", "TW", "us", "HK"}, sy \in {"2330", "123", "1234567", "aapl"}}

SeqsUpTo(S, n) == UNION {[1..k -> S] : k \in 0..n}

MarketBatches == SeqsUpTo(MarketRows, MaxRows)

CsvBatches == SeqsUpTo(CsvRows, MaxRows)

----------------------------------------------------------------------------
(* The ledger under its mutating handlers *)

Init ==
  /\ localStorage = <<>>
  /\ ledger = loadLedger(localStorage)
  /\ clock = 0
  /\ lastQueryLog = null
  /\ lastQueryMarket = null
  /\ lastQuerySymbol = null
  /\ idb = localStorage
  /\ hydrate = HydrateDone
  /\ lastOp = Op("init", "ok")

DoAddTrade ==
  \E f \in AddForms :
    AddTrade(f.f_market, f.f_side, f.f_symbol, f.f_date, f.f_time, f.f_qty,
             f.f_price, f.f_fee)

DoEditSave ==
  \E tid \in Ids(ledger.lots), f \in EditForms :
    EditSave(tid, f.ui_date, f.ui_time, f.ui_qty, f.ui_price, f.ui_fee)

DoDeleteTrade ==
  \E tid \in 0..(MaxLots + 1), confirmed \in BOOLEAN :
    DeleteTrade(tid, confirmed, "TW", "")

DoImportCsv == \E rows \in CsvBatches : ImportCsv(rows)

Next == DoAddTrade \/ DoEditSave \/ DoDeleteTrade \/ DoImportCsv

Spec == Init /\ [][Next]_vars

\* The same handlers with a clock that advances between them.
NextClock == DoAddTrade \/ DoEditSave \/ DoDeleteTrade \/ DoImportCsv \/ Tick

SpecClock == Init /\ [][NextClock]_vars

----------------------------------------------------------------------------
(* The replay over arbitrary ledgers *)

Trade(m, sy, sd, d, q, p, f) ==
  [id |-> 0, timestamp |-> d * SecPerDay, market |-> m, symbol |-> sy, type |-> sd,
   qty |-> q, price |-> p, fee |-> f]

\* Records of TW 2330, whether or not a SELL is covered, and one record of
\* another instrument with the same symbol.
ReplayTrades ==
  {Trade("TW", "2330", "BUY", d, q, 3, 1) : d \in Days, q \in 1..MaxQty}
  \cup {Trade("TW", "2330", "SELL", d, q, 2, 1) : d \in Days, q \in 1..MaxQty}
  \cup {Trade("US", "2330", "BUY", 1, 1, 1, 0)}

\* seedExample's trade followed by a partial sale.
ExampleLots ==
  <<Trade("TW", "2330", "BUY", 1, 100, 586, 20),
    Trade("TW", "2330", "SELL", 2, 40, 600, 5)>>

WithIds(lots) == [i \in 1..Len(lots) |-> [lots[i] EXCEPT !.id = i]]

ReplayLedgers ==
  {WithIds(lots) : lots \in SeqsUpTo(ReplayTrades, MaxReplay) \cup {ExampleLots}}

\* A ledger as the JSON import handler stores it, {version: 1, lots}.
InitReplay ==
  /\ \E lots \in ReplayLedgers :
       localStorage = setItem(<<>>, STORAGE_KEY, JSONstringify([version |-> 1, lots |-> lots]))
  /\ ledger = loadLedger(localStorage)
  /\ clock = 0
  /\ lastQueryLog = null
  /\ lastQueryMarket = null
  /\ lastQuerySymbol = null
  /\ idb = localStorage
  /\ hydrate = HydrateDone
  /\ lastOp = Op("init", "ok")

DoQuery == \E m \in {"TW", "US"} : Query(m, "2330")

NextReplay == DoQuery

SpecReplay == InitReplay /\ [][NextReplay]_vars

----------------------------------------------------------------------------
(* addTrade alone, with every fee the form may hold *)

DoAddTradeFee ==
  \E f \in AddForms \cup FeeForms :
    AddTrade(f.f_market, f.f_side, f.f_symbol, f.f_date, f.f_time, f.f_qty,
             f.f_price, f.f_fee)

NextAdd == DoAddTradeFee

SpecAdd == Init /\ [][NextAdd]_vars

----------------------------------------------------------------------------
(* CSV import of rows with and without a market column value *)

DoImportMarket == \E rows \in MarketBatches : ImportCsv(rows)

NextMarket == DoImportMarket

SpecMarket == Init /\ [][NextMarket]_vars

----------------------------------------------------------------------------
(* The holdings table over arbitrary ledgers *)

\* The records of the replay and a sale of US 2330 that realizes exactly 0
\* after the one purchase of it.
HoldingsTrades == ReplayTrades \cup {Trade("US", "2330", "SELL", 2, 1, 2, 1)}

HoldingsLedgers == {WithIds(lots) : lots \in SeqsUpTo(HoldingsTrades, MaxReplay)}

\* A ledger as the JSON import handler stores it, {version: 1, lots}.
InitHoldings ==
  /\ \E lots \in HoldingsLedgers :
       localStorage = setItem(<<>>, STORAGE_KEY, JSONstringify([version |-> 1, lots |-> lots]))
  /\ ledger = loadLedger(localStorage)
  /\ clock = 0
  /\ lastQueryLog = null
  /\ lastQueryMarket = null
  /\ lastQuerySymbol = null
  /\ idb = localStorage
  /\ hydrate = HydrateDone
  /\ lastOp = Op("init", "ok")

NextHoldings == RefreshHoldings

SpecHoldings == InitHoldings /\ [][NextHoldings]_vars

----------------------------------------------------------------------------
(* Edit-save and CSV import over arbitrary stored ledgers *)

\* Records as the add form and the CSV rows write them: TW 2330 at midnight
\* and US AAPL at 09:00 on day 1, price 1 and no fee.
StoredTrades ==
  {Trade("TW", "2330", sd, d, q, 1, 0) :
     sd \in {"BUY", "SELL"}, d \in Days, q \in 1..MaxQty}
  \cup {[Trade("US", "AAPL", sd, 1, 1, 1, 0) EXCEPT !.timestamp = SecPerDay + 9 * 60 * 60] :
          sd \in {"BUY", "SELL"}}

StoredLedgers == {WithIds(lots) : lots \in SeqsUpTo(StoredTrades, MaxLots)}

\* A ledger as the JSON import handler stores it, {version: 1, lots}.
InitStored ==
  /\ \E lots \in StoredLedgers :
       localStorage = setItem(<<>>, STORAGE_KEY, JSONstringify([version |-> 1, lots |-> lots]))
  /\ ledger = loadLedger(localStorage)
  /\ clock = 0
  /\ lastQueryLog = null
  /\ lastQueryMarket = null
  /\ lastQuerySymbol = null
  /\ idb = localStorage
  /\ hydrate = HydrateDone
  /\ lastOp = Op("init", "ok")

NextImport == DoImportCsv

SpecImport == InitStored /\ [][NextImport]_vars

----------------------------------------------------------------------------
(* Every handler that writes or clears the primary document *)

\* One valid purchase and one valid sale of TW 2330, and a form the
\* validation refuses.
StoreForms ==
  {AddForm("TW", sd, "2330", DateStr[1], "", "1", "1", "") : sd \in {"BUY", "SELL"}}
  \cup {AddForm("TW", "BUY", "", DateStr[1], "", "1", "1", "")}

\* An edit to each small quantity, and one the validation refuses.
StoreEdits ==
  {EditForm(DateStr[1], "", q, "1", "0") : q \in QtyText}
  \cup {EditForm(DateStr[1], "", "0", "1", "0")}

\* A purchase and a sale of TW 2330 on day 1.
StoreRows ==
  {CsvRow("", "2330", sd, DateSlash[1], "00:00", "1", "1", "") : sd \in {"B", "sell"}}

\* Texts of a backup file: one that is no JSON, a document without lots, and
\* documents with no record, one record, and a sale no purchase covers.
JsonFiles ==
  {[text |-> "not json"], JSONstringify([version |-> 1])}
  \cup {JSONstringify([version |-> 1, lots |-> WithIds(lots), lastSaved |-> 0]) :
          lots \in {<<>>, <<Trade("TW", "2330", "BUY", 1, 1, 1, 0)>>,
                    <<Trade("TW", "2330", "SELL", 1, 1, 1, 0)>>}}

DoAddTradeStore ==
  \E f \in StoreForms :
    AddTrade(f.f_market, f.f_side, f.f_symbol, f.f_date, f.f_time, f.f_qty,
             f.f_price, f.f_fee)

DoEditSaveStore ==
  \E tid \in Ids(ledger.lots), f \in StoreEdits :
    EditSave(tid, f.ui_date, f.ui_time, f.ui_qty, f.ui_price, f.ui_fee)

DoImportCsvStore == \E rows \in SeqsUpTo(StoreRows, MaxRows) : ImportCsv(rows)

DoImportJson == \E txt \in JsonFiles : ImportJson(txt)

DoReset == \E confirmed \in BOOLEAN : Reset(confirmed)

NextStore ==
  \/ DoAddTradeStore
  \/ DoEditSaveStore
  \/ DoDeleteTrade
  \/ DoImportCsvStore
  \/ DoImportJson
  \/ DoReset

SpecStore == Init /\ [][NextStore]_vars

----------------------------------------------------------------------------
(* Page initialisation with a backup, and the handlers that may run while
   the backup is being read *)

\* Two purchases of US AAPL as an earlier session saved them.
BackupLots ==
  WithIds(<<[Trade("US", "AAPL", "BUY", 1, 1, 1, 0) EXCEPT !.timestamp = SecPerDay + 9 * 60 * 60],
            [Trade("US", "AAPL", "BUY", 2, 1, 1, 0) EXCEPT !.timestamp = 2 * SecPerDay]>>)

\* What the primary key holds when the page loads: nothing, a text that is
\* no JSON, or a saved ledger of one record.
PrimaryAtLoad ==
  {<<>>,
   setItem(<<>>, STORAGE_KEY, [text |-> "not json"]),
   setItem(<<>>, STORAGE_KEY,
           JSONstringify(Stamped([version |-> 1, lots |-> SubSeq(BackupLots, 1, 1)], 0)))}

\* What the backup store holds when the page loads: nothing, a text that is
\* no JSON, a saved ledger without records, or one with records.
BackupAtLoad ==
  {<<>>,
   idbSet(<<>>, STORAGE_KEY, [text |-> "not json"])}
  \cup {saveLedgerBackup(<<>>, [version |-> 1, lots |-> SubSeq(BackupLots, 1, n)], 0) :
          n \in 0..Len(BackupLots)}

InitHydrate ==
  /\ localStorage \in PrimaryAtLoad
  /\ idb \in BackupAtLoad
  /\ ledger = loadLedger(localStorage)
  /\ hydrate = HydrateStart(localStorage)
  /\ clock = 0
  /\ lastQueryLog = null
  /\ lastQueryMarket = null
  /\ lastQuerySymbol = null
  /\ lastOp = Op("init", "ok")

NextHydrate ==
  \/ IdbGetResolves
  \/ HydrateResume
  \/ DoAddTradeStore
  \/ DoDeleteTrade

SpecHydrate == InitHydrate /\ [][NextHydrate]_vars

----------------------------------------------------------------------------
(* Edit-save while another page writes the primary document *)

\* A purchase of TW 2330 on day 1, a sale of it on day 2, and a purchase of
\* US AAPL.
EditTrades ==
  {Trade("TW", "2330", "BUY", 1, 1, 1, 0), Trade("TW", "2330", "SELL", 2, 1, 1, 0),
   Trade("US", "AAPL", "BUY", 1, 1, 1, 0)}

EditLedgers == {WithIds(lots) : lots \in SeqsUpTo(EditTrades, MaxLots)}

\* A ledger as the JSON import handler stores it, {version: 1, lots}.
InitEdit ==
  /\ \E lots \in EditLedgers :
       localStorage = setItem(<<>>, STORAGE_KEY, JSONstringify([version |-> 1, lots |-> lots]))
  /\ ledger = loadLedger(localStorage)
  /\ clock = 0
  /\ lastQueryLog = null
  /\ lastQueryMarket = null
  /\ lastQuerySymbol = null
  /\ idb = localStorage
  /\ hydrate = HydrateDone
  /\ lastOp = Op("init", "ok")

\* What the other page saves: no record, one record, or the purchase and
\* the sale of TW 2330.
OtherTabLedgers ==
  {WithIds(lots) : lots \in SeqsUpTo(EditTrades, 1)}
  \cup {WithIds(<<Trade("TW", "2330", "BUY", 1, 1, 1, 0),
                  Trade("TW", "2330", "SELL", 2, 1, 1, 0)>>)}

DoOtherTabSaves == \E lots \in OtherTabLedgers : OtherTabSaves(lots)

NextEdit == DoEditSaveStore \/ DoOtherTabSaves

SpecEdit == InitEdit /\ [][NextEdit]_vars

----------------------------------------------------------------------------
(* Edit-save over ledgers a JSON import may have stored *)

\* Records of TW 2330: purchases, sales of one unit at midnight, a sale of
\* MaxQty units at 09:00:30 of day 1 and a record of quantity 0; and a sale
\* of US 2330.
ValidateTrades ==
  {Trade("TW", "2330", "BUY", d, q, 1, 0) : d \in Days, q \in 1..MaxQty}
  \cup {Trade("TW", "2330", "SELL", d, 1, 1, 0) : d \in Days}
  \cup {[Trade("TW", "2330", "SELL", 1, MaxQty, 1, 0)
           EXCEPT !.timestamp = SecPerDay + 9 * 3600 + 30],
        Trade("TW", "2330", "BUY", 1, 0, 1, 0),
        Trade("US", "2330", "SELL", 1, 1, 1, 0)}

ValidateLedgers == {WithIds(lots) : lots \in SeqsUpTo(ValidateTrades, MaxLots)}

\* A ledger as the JSON import handler stores it, {version: 1, lots}.
InitValidate ==
  /\ \E lots \in ValidateLedgers :
       localStorage = setItem(<<>>, STORAGE_KEY, JSONstringify([version |-> 1, lots |-> lots]))
  /\ ledger = loadLedger(localStorage)
  /\ clock = 0
  /\ lastQueryLog = null
  /\ lastQueryMarket = null
  /\ lastQuerySymbol = null
  /\ idb = localStorage
  /\ hydrate = HydrateDone
  /\ lastOp = Op("init", "ok")

NextValidate == DoEditSaveStore

SpecValidate == InitValidate /\ [][NextValidate]_vars

----------------------------------------------------------------------------
(* Both strict checks at work: edit-save and CSV import over stored ledgers *)

NextChecks == DoEditSaveStore \/ DoImportCsvStore

SpecChecks == InitValidate /\ [][NextChecks]_vars

----------------------------------------------------------------------------
(* CSV import of rows of every fate over stored ledgers *)

\* A purchase of TW 2330 on day 1 (a record StoredTrades holds) and one on
\* day 2, a sale on day 2, a row with a quantity that is no number, a row
\* without symbol and an all-blank row.
AccountRows ==
  {CsvRow("", "2330", "B", DateSlash[d], "00:00", "1", "1", "") : d \in {1, 2}}
  \cup {CsvRow("", "2330", "sell", DateSlash[2], "00:00", "1", "1", ""),
        CsvRow("", "2330", "B", DateSlash[1], "00:00", "abc", "1", ""),
        CsvRow("", "", "B", DateSlash[1], "", "1", "1", ""),
        CsvRow("", "", "", "", "", "", "", "")}

AccountBatches == SeqsUpTo(AccountRows, MaxRows)

DoImportAccount == \E rows \in AccountBatches : ImportCsv(rows)

NextAccount == DoImportAccount

SpecAccount == InitStored /\ [][NextAccount]_vars

----------------------------------------------------------------------------
(* Reset, and the page loads that follow it *)

NextReset ==
  \/ DoAddTradeStore
  \/ DoDeleteTrade
  \/ DoImportJson
  \/ DoReset
  \/ PageLoad
  \/ IdbGetResolves
  \/ HydrateResume

SpecReset == Init /\ [][NextReset]_vars

----------------------------------------------------------------------------
(* The oversell invariant, stated on the records alone *)

InstrumentOf(r) == <<r.market, r.symbol>>

Instruments(lots) == {InstrumentOf(lots[i]) : i \in 1..Len(lots)}

RecordsOf(lots, inst) == SelectSeq(lots, LAMBDA x : InstrumentOf(x) = inst)

\* Position of record a of seq in ascending timestamp order, ties kept in
\* their order of appearance.
Rank(seq, a) ==
  1 + Cardinality({b \in 1..Len(seq) :
        \/ seq[b].timestamp < seq[a].timestamp
        \/ seq[b].timestamp = seq[a].timestamp /\ b < a})

ByTimestamp(seq) ==
  [k \in 1..Len(seq) |-> seq[CHOOSE a \in 1..Len(seq) : Rank(seq, a) = k]]

\* Buys minus sells over the first n rows.
RECURSIVE HoldingAfter(_, _)
HoldingAfter(rows, n) ==
  IF n = 0 THEN 0
  ELSE HoldingAfter(rows, n - 1)
       + (IF rows[n].type = "BUY" THEN rows[n].qty
          ELSE IF rows[n].type = "SELL" THEN -rows[n].qty ELSE 0)

OversoldAt(rows, i) ==
  rows[i].type = "SELL" /\ rows[i].qty > HoldingAfter(rows, i - 1)

OversellFree(lots, inst) ==
  LET rows == ByTimestamp(RecordsOf(lots, inst))
  IN \A i \in 1..Len(rows) : ~OversoldAt(rows, i)

LedgerOversellFree(lots) == \A inst \in Instruments(lots) : OversellFree(lots, inst)

Last(seq) == seq[Len(seq)]

----------------------------------------------------------------------------
(* Properties of the mutating handlers *)

\* C1: in every state reachable from the empty ledger through addTrade,
\* edit-save, deleteTradeById and importCsvIntoLedger, no instrument's
\* timeline in ascending timestamp order (stable) has a SELL whose quantity
\* exceeds the running holding before it.
C1_OversellInvariant == LedgerOversellFree(ledger.lots)

\* C2: addTrade appends the new record only if the timeline of its
\* instrument including the new record has no SELL that exceeds the holding
\* before it; otherwise the in-memory and the persisted ledger are unchanged.
C2_AddRejectsOversell ==
  [][lastOp'.name = "addTrade" =>
       IF ledger'.lots # ledger.lots
         THEN OversellFree(ledger'.lots, InstrumentOf(Last(ledger'.lots)))
         ELSE ledger' = ledger /\ localStorage' = localStorage]_vars

\* C3: an edit-save is committed only if, after the change, no SELL of the
\* edited record's instrument exceeds the running holding at its place in
\* timestamp order; a save that is not committed changes neither the
\* in-memory ledger nor the persisted document; and an edit of a ledger that
\* satisfies the oversell invariant yields one that satisfies it.
C3_EditValidated ==
  [][lastOp'.name = "editSave" =>
       \A tid \in Ids(ledger.lots), f \in EditForms :
         EditSave(tid, f.ui_date, f.ui_time, f.ui_qty, f.ui_price, f.ui_fee) =>
           LET inst == InstrumentOf(ledger.lots[findIndex(ledger.lots, tid)])
           IN /\ lastOp'.outcome = "ok" => OversellFree(ledger'.lots, inst)
              /\ lastOp'.outcome # "ok" =>
                   ledger' = ledger /\ localStorage' = localStorage
              /\ LedgerOversellFree(ledger.lots) => LedgerOversellFree(ledger'.lots)]_vars

\* An edit was refused because it would oversell, and the ledger still
\* holds the records.
C3_Witness == lastOp = Op("editSave", "oversell") /\ Len(ledger.lots) = 2

\* C4: from a ledger that satisfies the oversell invariant, a confirmed
\* deleteTradeById yields a ledger that satisfies it, or is rejected and
\* leaves the ledger unchanged.
C4_DeleteValidated ==
  [][lastOp'.name = "deleteTradeById" /\ LedgerOversellFree(ledger.lots) =>
       LedgerOversellFree(ledger'.lots)]_vars

\* C5: when importCsvIntoLedger rolls back, the in-memory ledger and the
\* persisted document are identical to their pre-import state in every
\* field, lastSaved included.
C5_RollbackIdentical ==
  [][lastOp'.name = "importCsv" /\ lastOp'.outcome = "rollback" =>
       ledger' = ledger /\ localStorage' = localStorage]_vars

Range(seq) == {seq[i] : i \in 1..Len(seq)}

\* C6: importing a batch and then the same batch again adds no record the
\* second time: when the first import returns, the second returns with
\* imported = 0 and every valid row skipped, and in every case the second
\* import leaves the records of the ledger as the first left them.
C6_DedupIdempotent ==
  \A rows \in CsvBatches :
    ImportFits(rows) =>
      LET r1 == importCsvIntoLedger(ledger, rows, clock)
          r2 == importCsvIntoLedger(r1.ledger, rows, clock)
      IN /\ Range(r2.ledger.lots) = Range(r1.ledger.lots)
         /\ Len(r2.ledger.lots) = Len(r1.ledger.lots)
         /\ r1.outcome = "ok" =>
              /\ r2.outcome = "ok"
              /\ r2.imported = 0
              /\ r2.skipped = r1.imported + r1.skipped
              /\ r2.errors = r1.errors

\* A second import of rows already in the ledger returned with nothing
\* imported and rows skipped.
C6_Witness ==
  /\ lastOp.name = "importCsv" /\ lastOp.outcome = "ok"
  /\ lastOp.imported = 0 /\ lastOp.skipped > 0
  /\ ledger.lots # <<>>

----------------------------------------------------------------------------
(* Properties of the replay, on the log of the last query *)

QueryDone == lastOp = Op("query", "ok")

\* Holding and average cost before entry i of a timeline.
PrevQty(rows, i) == IF i = 1 THEN 0 ELSE rows[i - 1].afterQty
PrevAvg(rows, i) == IF i = 1 THEN R(0) ELSE rows[i - 1].avg

\* The ledger holds exactly the example, and TW 2330 was queried.
ExampleQueried ==
  /\ QueryDone
  /\ ledger.lots = WithIds(ExampleLots)
  /\ lastQueryMarket = "TW" /\ lastQuerySymbol = "2330"

\* C7: every timeline entry has afterQty >= 0, and whenever a SELL brings
\* the holding to zero or below, afterQty is exactly 0 and the running
\* average cost is exactly 0.
C7_NonNegativeHolding ==
  QueryDone =>
    LET rows == lastQueryLog.rows
    IN \A i \in 1..Len(rows) :
         /\ rows[i].afterQty >= 0
         /\ rows[i].side = "SELL" /\ PrevQty(rows, i) - rows[i].q <= 0 =>
              rows[i].afterQty = 0 /\ rows[i].avg = R(0)

\* The queried timeline has a SELL larger than the holding before it.
C7_Witness ==
  /\ QueryDone
  /\ \E i \in 1..Len(lastQueryLog.rows) :
       /\ lastQueryLog.rows[i].side = "SELL"
       /\ lastQueryLog.rows[i].q > PrevQty(lastQueryLog.rows, i)
       /\ i > 1

\* C8: after a BUY of q at px with fee f from (qty, avg) the average cost is
\* (qty*avg + q*px + f) / (qty + q) and the holding is qty + q; after a SELL
\* that leaves a holding > 0 the average cost is unchanged.  BUY 100 at 586
\* fee 20 gives 586.2 and 100; SELL 40 at 600 fee 5 then gives 60 and 586.2.
C8_AverageCostRule ==
  QueryDone =>
    LET rows == lastQueryLog.rows
    IN /\ \A i \in 1..Len(rows) :
            LET qty == PrevQty(rows, i)
                avg == PrevAvg(rows, i)
                e   == rows[i]
            IN /\ e.side = "BUY" =>
                    /\ e.afterQty = qty + e.q
                    /\ e.avg = RDiv(RAdd(RMul(R(qty), avg), R(e.q * e.px + e.fee)),
                                    R(qty + e.q))
               /\ e.side = "SELL" /\ e.afterQty > 0 => e.avg = avg
       /\ ExampleQueried =>
            /\ Len(rows) = 2
            /\ rows[1].afterQty = 100 /\ rows[1].avg = <<2931, 5>>
            /\ rows[2].afterQty = 60 /\ rows[2].avg = <<2931, 5>>
            /\ lastQueryLog.holdingQty = 60 /\ lastQueryLog.avgCost = <<2931, 5>>

\* The example was replayed: the BUY set the average cost to 586.2.
C8_Witness == ExampleQueried /\ lastQueryLog.rows[1].avg = <<2931, 5>>

\* Sum over the SELL entries among the first n of (q*px - fee) - q*(average
\* cost before the entry).
RECURSIVE SellSum(_, _)
SellSum(rows, n) ==
  IF n = 0 THEN R(0)
  ELSE IF rows[n].side = "SELL"
    THEN RAdd(SellSum(rows, n - 1),
              RSub(R(rows[n].q * rows[n].px - rows[n].fee),
                   RMul(R(rows[n].q), PrevAvg(rows, n))))
  ELSE SellSum(rows, n - 1)

\* C9: realizedPnl is the sum over the SELL records in timestamp order of
\* (q*px - fee) - q*(average cost before that SELL); BUY records contribute
\* nothing.  BUY 100 at 586 fee 20 then SELL 40 at 600 fee 5 realizes 547.
C9_RealizedAdditive ==
  QueryDone =>
    /\ lastQueryLog.realizedPnl = SellSum(lastQueryLog.rows, Len(lastQueryLog.rows))
    /\ ExampleQueried => lastQueryLog.realizedPnl = R(547)

\* The example was replayed and realized 547.
C9_Witness == ExampleQueried /\ lastQueryLog.realizedPnl = R(547)

\* The orderings of lots that keep records of one instrument with equal
\* timestamps in their relative order.
TieKeeping(lots) ==
  {p \in Permutations(1..Len(lots)) :
     \A a, b \in 1..Len(lots) :
       (a < b /\ lots[p[a]].timestamp = lots[p[b]].timestamp
              /\ InstrumentOf(lots[p[a]]) = InstrumentOf(lots[p[b]])) => p[a] < p[b]}

Reordered(lots, p) == [i \in 1..Len(lots) |-> lots[p[i]]]

\* C10: the log of an instrument is the same for every ordering of
\* ledger.lots that keeps records of equal timestamp in their relative
\* order, and the records of other instruments have no effect on it.
C10_ReplayDeterministic ==
  QueryDone =>
    LET inst == <<lastQueryMarket, lastQuerySymbol>>
    IN /\ \A p \in TieKeeping(ledger.lots) :
            buildLogForOne([ledger EXCEPT !.lots = Reordered(ledger.lots, p)],
                           lastQueryMarket, lastQuerySymbol) = lastQueryLog
       /\ buildLogForOne([ledger EXCEPT !.lots = RecordsOf(ledger.lots, inst)],
                         lastQueryMarket, lastQuerySymbol) = lastQueryLog

\* A queried instrument whose records are stored out of timestamp order,
\* next to a record of another instrument.
C10_Witness ==
  /\ QueryDone
  /\ Len(lastQueryLog.rows) = 2
  /\ Len(ledger.lots) = 3
  /\ \E a, b \in 1..Len(ledger.lots) :
       /\ a < b
       /\ InstrumentOf(ledger.lots[a]) = <<lastQueryMarket, lastQuerySymbol>>
       /\ InstrumentOf(ledger.lots[b]) = <<lastQueryMarket, lastQuerySymbol>>
       /\ ledger.lots[a].timestamp > ledger.lots[b].timestamp

----------------------------------------------------------------------------
(* Properties of the holdings table *)

HoldingsDone == lastOp.name = "refreshHoldings"

\* Two records of one instrument carry the same timestamp.
HasTie(lots) ==
  \E a, b \in 1..Len(lots) :
    /\ a < b
    /\ InstrumentOf(lots[a]) = InstrumentOf(lots[b])
    /\ lots[a].timestamp = lots[b].timestamp

\* The entries of the holdings table for instrument inst.
EntriesOf(holdings, inst) ==
  {i \in 1..Len(holdings) : <<holdings[i].market, holdings[i].symbol>> = inst}

\* C11: for every ledger and every instrument with records, the quantity,
\* average cost and realized P&L that computeHoldings derives equal the
\* holdingQty, avgCost and realizedPnl buildLogForOne returns for it, and so
\* do the figures of every entry the holdings table shows.
C11_SingleAuthority ==
  HoldingsDone =>
    LET acc == computeHoldingsMap(ledger)
    IN /\ DOMAIN acc.map = Instruments(ledger.lots)
       /\ \A inst \in Instruments(ledger.lots) :
            LET log == buildLogForOne(ledger, inst[1], inst[2])
                pos == acc.map[inst]
            IN /\ pos.qty = log.holdingQty
               /\ pos.avg = log.avgCost
               /\ pos.realized = log.realizedPnl
       /\ \A i \in 1..Len(lastOp.holdings) :
            LET e   == lastOp.holdings[i]
                log == buildLogForOne(ledger, e.market, e.symbol)
            IN /\ e.qty = log.holdingQty
               /\ e.avg = log.avgCost
               /\ e.realized = log.realizedPnl

\* The table was computed for a ledger with records of equal timestamp and
\* a SELL larger than the holding before it.
C11_Witness ==
  /\ HoldingsDone
  /\ HasTie(ledger.lots)
  /\ ~LedgerOversellFree(ledger.lots)
  /\ lastOp.holdings # <<>>

\* C12: the holdings table has at most one entry per instrument, every
\* entry is of an instrument with records, and an instrument with records
\* has an entry if and only if its terminal holding is > 0 or the absolute
\* value of its realized P&L is > 1e-6.
C12_HoldingsMembership ==
  HoldingsDone =>
    /\ \A i \in 1..Len(lastOp.holdings) :
         <<lastOp.holdings[i].market, lastOp.holdings[i].symbol>> \in Instruments(ledger.lots)
    /\ \A inst \in Instruments(ledger.lots) :
         LET log == buildLogForOne(ledger, inst[1], inst[2])
             n   == Cardinality(EntriesOf(lastOp.holdings, inst))
         IN /\ n <= 1
            /\ n = 1 <=> \/ log.holdingQty > 0
                          \/ Abs(log.realizedPnl[1]) * 1000000 > log.realizedPnl[2]

\* An instrument sold out at a realized P&L of exactly 0 is absent from the
\* table, next to one that is shown with no holding left.
C12_Witness ==
  /\ HoldingsDone
  /\ \E inst \in Instruments(ledger.lots) :
       LET log == buildLogForOne(ledger, inst[1], inst[2])
       IN /\ Len(log.rows) = 2
          /\ log.holdingQty = 0 /\ log.realizedPnl = R(0)
          /\ EntriesOf(lastOp.holdings, inst) = {}
  /\ \E i \in 1..Len(lastOp.holdings) : lastOp.holdings[i].qty = 0

----------------------------------------------------------------------------
(* Properties of the single-record validation *)

\* Every rule of the normalizer holds for the values f of the add form.
FormAcceptable(f) ==
  LET market == normalizeMarket(f.f_market)
      qty    == toNumber(f.f_qty, NaN)
      price  == toNumber(f.f_price, NaN)
      fee    == toNumber(f.f_fee, NaN)
  IN /\ market # null
     /\ normalizeSymbol(market, f.f_symbol) # ""
     /\ parseTimestamp(f.f_date, f.f_time).ok
     /\ IsFinite(qty) /\ qty.val > 0
     /\ IsFinite(price) /\ price.val > 0
     /\ f.f_fee = "" \/ (IsFinite(fee) /\ fee.val >= 0)

\* C13: addTrade adds a record only when every rule of the normalizer holds
\* for the form, a negative or non-numeric fee included; otherwise the
\* in-memory and the persisted ledger are unchanged, and no record with
\* fee < 0 enters the ledger.
C13_AddAllOrNothing ==
  [][lastOp'.name = "addTrade" =>
       \A f \in AddForms \cup FeeForms :
         AddTrade(f.f_market, f.f_side, f.f_symbol, f.f_date, f.f_time, f.f_qty,
                  f.f_price, f.f_fee) =>
           /\ ~FormAcceptable(f) => ledger' = ledger /\ localStorage' = localStorage
           /\ \A i \in 1..Len(ledger'.lots) : ledger'.lots[i].fee >= 0]_vars

----------------------------------------------------------------------------
(* Properties of the row normalisation of the CSV import *)

ImportDone == lastOp.name = "importCsv" /\ lastOp.outcome = "ok"

\* The records of lots2 that lots1 does not hold.
AddedTo(lots1, lots2) == Range(lots2) \ Range(lots1)

\* C14: after an import that returns, every record it added has a market
\* in {TW, US}, a non-empty symbol, quantity > 0, price > 0 and fee >= 0; a
\* row whose explicit market is not a known code is left out.
C14_ImportNormalizes ==
  [][lastOp'.name = "importCsv" /\ lastOp'.outcome = "ok" =>
       \A rec \in AddedTo(ledger.lots, ledger'.lots) :
         /\ rec.market \in {"TW", "US"}
         /\ rec.symbol # ""
         /\ rec.qty > 0 /\ rec.price > 0 /\ rec.fee >= 0]_vars

\* The market codes a market column may spell, with the code they denote.
KnownMarket == ("TW" :> "TW") @@ ("tw" :> "TW") @@ ("US" :> "US") @@ ("us" :> "US")

\* C17: a row with a valid explicit market is stored with exactly that
\* market whatever the shape of its symbol; a row with a blank market is
\* stored as TW when its symbol is 4 to 6 digits and as US otherwise.
C17_MarketInference ==
  [][lastOp'.name = "importCsv" /\ lastOp'.outcome = "ok" =>
       \A row \in MarketRows :
         (ImportCsv(<<row>>) /\ lastOp'.imported = 1) =>
           \A rec \in AddedTo(ledger.lots, ledger'.lots) :
             /\ row.market \in DOMAIN KnownMarket => rec.market = KnownMarket[row.market]
             /\ row.market = "" =>
                  rec.market = IF /\ Len(Chars[row.symbol]) \in {4, 5, 6}
                                  /\ \A i \in 1..Len(Chars[row.symbol]) :
                                       Chars[row.symbol][i] \in Digits
                               THEN "TW" ELSE "US"]_vars

\* Stored side by side: US 2330 and TW aapl from explicit markets, and a
\* symbol of 7 digits that was given the foreign market.
C17_Witness ==
  /\ ImportDone
  /\ \E i \in 1..Len(ledger.lots) :
       ledger.lots[i].market = "US" /\ ledger.lots[i].symbol = "1234567"
  /\ \E i \in 1..Len(ledger.lots) :
       ledger.lots[i].market = "TW" /\ ledger.lots[i].symbol = "aapl"

----------------------------------------------------------------------------
(* Properties of the dedup rule and of the scan of the CSV import *)

\* Row `row` normalized on its own: valid tells whether it passes every
\* check of the row loop, rec is the record it becomes.
Normalized(row) ==
  LET st == ImportRow([lots |-> <<>>, existing |-> {}, imported |-> 0,
                       skipped |-> 0, errors |-> 0], row)
  IN [valid |-> st.imported = 1, rec |-> IF st.imported = 1 THEN st.lots[1] ELSE null]

\* The dedup key as the rule states it: every field but the id.
KeyFields(rec) ==
  [market |-> rec.market, symbol |-> rec.symbol, side |-> rec.type,
   timestamp |-> rec.timestamp, qty |-> rec.qty, price |-> rec.price, fee |-> rec.fee]

\* Row j of rows is valid and its key is the key of a record of lots or of
\* a valid row before it.
IsDuplicate(lots, rows, j) ==
  /\ Normalized(rows[j]).valid
  /\ LET k == KeyFields(Normalized(rows[j]).rec)
     IN \/ \E i \in 1..Len(lots) : KeyFields(lots[i]) = k
        \/ \E i \in 1..(j - 1) :
             Normalized(rows[i]).valid /\ KeyFields(Normalized(rows[i]).rec) = k

\* C15: in an import that returns, skipped counts exactly the valid rows
\* whose key (market, symbol, side, timestamp, quantity, price, fee; not the
\* id) is the key of a record of the ledger or of an earlier row of the
\* batch, imported counts the other valid rows, no skipped row is an
\* error, and no record the import added shares its key with another record.
C15_DedupRule ==
  \A rows \in CsvBatches :
    ImportFits(rows) =>
      LET res == importCsvIntoLedger(ledger, rows, clock)
          dup == {j \in 1..Len(rows) : IsDuplicate(ledger.lots, rows, j)}
          val == {j \in 1..Len(rows) : Normalized(rows[j]).valid}
      IN res.outcome = "ok" =>
           /\ res.skipped = Cardinality(dup)
           /\ res.imported = Cardinality(val \ dup)
           /\ res.errors = Cardinality({j \in 1..Len(rows) :
                                          ~IsBlankRow(rows[j]) /\ j \notin val})
           /\ Len(res.ledger.lots) = Len(ledger.lots) + res.imported
           /\ \A a \in AddedTo(ledger.lots, res.ledger.lots) :
                \A i \in 1..Len(res.ledger.lots) :
                  res.ledger.lots[i] # a => KeyFields(res.ledger.lots[i]) # KeyFields(a)

\* An import returned that added a row and skipped its repetition later in
\* the batch.
C15_Witness ==
  /\ ImportDone
  /\ lastOp.imported > 0 /\ lastOp.skipped > 0
  /\ Len(ledger.lots) = lastOp.imported

\* C16: an import returns only if no instrument of the merged ledger, one
\* that no row touches included, has a SELL larger than the holding before
\* it; otherwise it is rejected and the records in memory and in the
\* persisted document are those from before the import.
C16_FullLedgerScan ==
  [][lastOp'.name = "importCsv" =>
       /\ lastOp'.outcome = "ok" =>
            /\ LedgerOversellFree(ledger'.lots)
            /\ Len(ledger'.lots) = Len(ledger.lots) + lastOp'.imported
       /\ lastOp'.outcome = "rollback" =>
            /\ ledger'.lots = ledger.lots
            /\ loadLedger(localStorage').lots = ledger.lots]_vars

\* An import was rolled back on a ledger whose one record is a sale of US
\* AAPL that nothing covers.
C16_Witness ==
  /\ lastOp.name = "importCsv" /\ lastOp.outcome = "rollback"
  /\ Len(ledger.lots) = 1
  /\ ledger.lots[1].symbol = "AAPL" /\ ledger.lots[1].type = "SELL"

\* The records of the primary document as it is stored: those of its lots
\* array, none when the key is absent or the text holds no lots array.
PersistedLots ==
  IF ~HasItem(localStorage, STORAGE_KEY) THEN <<>>
  ELSE IF ~Parses(localStorage[STORAGE_KEY]) THEN <<>>
  ELSE IF ~HasLotsArray(localStorage[STORAGE_KEY].json) THEN <<>>
  ELSE localStorage[STORAGE_KEY].json.lots

\* C18: after every completed operation (addTrade, edit-save,
\* deleteTradeById, CSV import or its rollback, JSON import, reset; accepted
\* or refused) the records of the in-memory ledger are the records of the
\* persisted primary document, an absent document counting as no records.
C18_MemoryEqualsPersisted == ledger.lots = PersistedLots

\* A JSON import has replaced a ledger of other records by the file's.
C18_Witness ==
  /\ lastOp.name = "importJson"
  /\ lastOp.outcome = "ok"
  /\ Len(ledger.lots) > 0
  /\ HasItem(idb, STORAGE_KEY)
  /\ idb[STORAGE_KEY].json.lots # ledger.lots

\* Every record of lots is a record of others.
RecordsKept(lots, others) ==
  \A i \in 1..Len(lots) : \E j \in 1..Len(others) : others[j] = lots[i]

\* C19: hydrateFromIDBIfNeeded writes the backup document to the primary
\* store and to the in-memory ledger only if the primary is empty at the
\* moment of the write, and no record that a handler persisted while the
\* backup read was awaited is lost when it resumes.
C19_RestoreOnlyIntoEmpty ==
  [][lastOp'.name = "hydrate" =>
       /\ lastOp'.outcome = "restored" => ~HasItem(localStorage, STORAGE_KEY)
       /\ RecordsKept(PersistedLots, PersistedLots')
       /\ RecordsKept(ledger.lots, ledger'.lots)]_vars

\* The backup holds a ledger with records.
BackupHasRecords ==
  /\ HasItem(idb, STORAGE_KEY)
  /\ Parses(idb[STORAGE_KEY])
  /\ HasLotsArray(idb[STORAGE_KEY].json)
  /\ Len(idb[STORAGE_KEY].json.lots) > 0

\* The primary key holds a text that is no ledger.
PrimaryDamaged ==
  /\ HasItem(localStorage, STORAGE_KEY)
  /\ ~Parses(localStorage[STORAGE_KEY])

\* C20: a primary document that does not parse loads as the empty ledger,
\* and it is told apart from an empty store: while it is there and the
\* backup holds records, no step replaces it by a document that lacks the
\* records of the backup.
C20_DamagedNotOverwritten ==
  [][PrimaryDamaged =>
       /\ loadLedger(localStorage) = defaultLedger
       /\ BackupHasRecords =>
            \/ localStorage' = localStorage
            \/ RecordsKept(idb[STORAGE_KEY].json.lots, PersistedLots')]_vars

\* The lots of before with the record at index j replaced by one that has
\* the same id, market, symbol and side.
OnlyEdited(before, after, j) ==
  /\ Len(after) = Len(before)
  /\ \A i \in 1..Len(before) : i # j => after[i] = before[i]
  /\ after[j].id = before[j].id
  /\ after[j].market = before[j].market
  /\ after[j].symbol = before[j].symbol
  /\ after[j].type = before[j].type

\* C21: edit-save edits a freshly reloaded copy of the persisted ledger, not
\* the ledger in memory: when the record id is not in the persisted ledger
\* the save is refused and neither ledger changes, and a committed save
\* leaves, in memory and persisted, the reloaded ledger with only the edited
\* record changed.
C21_EditReloads ==
  [][lastOp'.name = "editSave" =>
       \A tid \in Ids(ledger.lots), f \in StoreEdits :
         EditSave(tid, f.ui_date, f.ui_time, f.ui_qty, f.ui_price, f.ui_fee) =>
           /\ tid \notin Ids(PersistedLots) =>
                /\ lastOp'.outcome # "ok"
                /\ ledger' = ledger
                /\ localStorage' = localStorage
           /\ lastOp'.outcome = "ok" =>
                /\ tid \in Ids(PersistedLots)
                /\ OnlyEdited(PersistedLots, ledger'.lots, findIndex(PersistedLots, tid))
                /\ PersistedLots' = ledger'.lots]_vars

\* A save was refused because another page had replaced the persisted
\* ledger by one without the record the editor was opened on; the ledger in
\* memory still differs from the persisted one.
C21_Witness ==
  /\ lastOp = Op("editSave", "missing")
  /\ Len(PersistedLots) > 0
  /\ ledger.lots # PersistedLots

\* A record that differs from before in timestamp, qty, price and fee at most.
SameButEdited(before, after) ==
  after = [before EXCEPT !.timestamp = after.timestamp, !.qty = after.qty,
                         !.price = after.price, !.fee = after.fee]

\* C22: a committed edit changes only the timestamp, quantity, price and
\* fee of the record with the given id: that record keeps its id, market,
\* symbol and side, the number of records is the same, and every other
\* record keeps its place and all its fields; the four fields are those of
\* the editor.
C22_EditFrame ==
  [][lastOp' = Op("editSave", "ok") =>
       \A tid \in Ids(ledger.lots), f \in StoreEdits :
         EditSave(tid, f.ui_date, f.ui_time, f.ui_qty, f.ui_price, f.ui_fee) =>
           LET j == findIndex(PersistedLots, tid)
           IN /\ Len(PersistedLots') = Len(PersistedLots)
              /\ \A i \in 1..Len(PersistedLots) :
                    IF i = j
                      THEN /\ SameButEdited(PersistedLots[i], PersistedLots'[i])
                           /\ PersistedLots'[i].timestamp
                                = parseTimestamp(f.ui_date, f.ui_time).ts
                           /\ PersistedLots'[i].qty = Numerals[f.ui_qty]
                           /\ PersistedLots'[i].price = Numerals[f.ui_price]
                           /\ PersistedLots'[i].fee = Numerals[f.ui_fee]
                      ELSE PersistedLots'[i] = PersistedLots[i]
              /\ ledger'.lots = PersistedLots']_vars

\* The sale of a two-record ledger was edited and committed.
C22_Witness ==
  /\ lastOp = Op("editSave", "ok")
  /\ Len(ledger.lots) = 2
  /\ ledger.lots[2].type = "SELL"
  /\ ledger.lots[2].timestamp = SecPerDay
  /\ ledger.lots[1].timestamp = SecPerDay

\* The first index of rows that satisfies P, 0 when none does.
FirstAt(rows, P(_, _)) ==
  IF \E i \in 1..Len(rows) : P(rows, i)
    THEN CHOOSE i \in 1..Len(rows) : P(rows, i) /\ \A j \in 1..(i - 1) : ~P(rows, j)
    ELSE 0

\* The report of validateNoOversell names the sale at index k of rows, with
\* its timestamp as time.
ReportsSale(v, rows, k, time) ==
  /\ k > 0
  /\ v.reason = "oversell"
  /\ v.ts = time
  /\ v.q = rows[k].qty
  /\ v.holdingQty = HoldingAfter(rows, k - 1)

RejectedAt(rows, i) == rows[i].qty <= 0 \/ OversoldAt(rows, i)

C24_TimelineShape ==
  QueryDone =>
    LET log  == lastQueryLog
        recs == ByTimestamp(RecordsOf(ledger.lots, <<lastQueryMarket, lastQuerySymbol>>))
        n    == Len(recs)
    IN /\ Len(log.rows) = n
       /\ \A k \in 1..n :
            LET upTo == buildLogForOne([version |-> 1, lots |-> SubSeq(recs, 1, k)],
                                       lastQueryMarket, lastQuerySymbol)
            IN /\ log.rows[k].idx = k
               /\ log.rows[k].id = recs[k].id
               /\ log.rows[k].ts = recs[k].timestamp
               /\ log.rows[k].side = recs[k].type
               /\ log.rows[k].q = recs[k].qty
               /\ k > 1 => log.rows[k - 1].ts <= log.rows[k].ts
               /\ log.rows[k].afterQty = upTo.holdingQty
               /\ log.rows[k].avg = upTo.avgCost
       /\ IF n = 0 THEN log.holdingQty = 0 /\ log.avgCost = R(0)
                   ELSE /\ log.holdingQty = log.rows[n].afterQty
                        /\ log.avgCost = log.rows[n].avg

\* The timeline of two records that the ledger holds in the reverse order
\* of their timestamps, next to a record of another instrument.
C24_Witness ==
  /\ QueryDone
  /\ Len(lastQueryLog.rows) = 2
  /\ Len(ledger.lots) = 3
  /\ lastQueryLog.rows[1].id > lastQueryLog.rows[2].id
  /\ lastQueryLog.rows[1].ts < lastQueryLog.rows[2].ts

\* Every record is a BUY or a SELL of a positive quantity.
AllTrades(lots) ==
  \A i \in 1..Len(lots) : lots[i].type \in {"BUY", "SELL"} /\ lots[i].qty > 0

\* In the whole ledger in timestamp order, record i is a SELL larger than
\* what its instrument holds after the records before it.
OffendingAt(all, i) ==
  /\ all[i].type = "SELL"
  /\ all[i].qty >
       HoldingAfter(RecordsOf(SubSeq(all, 1, i - 1), InstrumentOf(all[i])),
                    Len(RecordsOf(SubSeq(all, 1, i - 1), InstrumentOf(all[i]))))

\* C25: on a ledger whose records are all BUY or SELL of a positive
\* quantity, findNegativeHoldings reports a violation exactly when
\* validateNoOversell rejects some instrument of the ledger, and what it
\* reports is the earliest offending SELL in timestamp order, the one
\* validateNoOversell reports for that instrument.
C25_StrictChecksAgree ==
  AllTrades(ledger.lots) =>
    LET neg == findNegativeHoldings(ledger)
        all == ByTimestamp(ledger.lots)
        k   == FirstAt(all, OffendingAt)
    IN /\ neg.found <=> \E inst \in Instruments(ledger.lots) :
                          ~validateNoOversell(ledger, inst[1], inst[2]).ok
       /\ neg.found <=> k > 0
       /\ k > 0 =>
            /\ neg.market = all[k].market
            /\ neg.symbol = all[k].symbol
            /\ neg.ts = all[k].timestamp
            /\ Slice16(neg.ts) = validateNoOversell(ledger, neg.market, neg.symbol).ts
            /\ all[k].qty = validateNoOversell(ledger, neg.market, neg.symbol).q

\* An edit was refused on a ledger of two instruments, one of them oversold
\* where it stands: both checks report its sale.
C25_Witness ==
  /\ lastOp = Op("editSave", "oversell")
  /\ AllTrades(ledger.lots)
  /\ Cardinality(Instruments(ledger.lots)) = 2
  /\ findNegativeHoldings(ledger).found
  /\ findNegativeHoldings(ledger).market = "US"

\* The rows of a batch with some column that is not blank.
NonBlankRows(rows) ==
  {i \in 1..Len(rows) : \E c \in DOMAIN rows[i] : rows[i][c] # ""}

\* C26: in a call of importCsvIntoLedger that returns normally every
\* non-blank data row is counted exactly once, as imported, skipped or an
\* error; the ledger holds exactly `imported` more records than before, in
\* memory and persisted; and every record it held before is still there
\* with all its fields.
C26_RowAccounting ==
  [][lastOp'.name = "importCsv" /\ lastOp'.outcome = "ok" =>
       \A rows \in AccountBatches :
         ImportCsv(rows) =>
           /\ lastOp'.imported + lastOp'.skipped + lastOp'.errors
                = Cardinality(NonBlankRows(rows))
           /\ Len(ledger'.lots) = Len(ledger.lots) + lastOp'.imported
           /\ RecordsKept(ledger.lots, ledger'.lots)
           /\ \A id \in Ids(ledger.lots) :
                Cardinality({i \in 1..Len(ledger'.lots) : ledger'.lots[i].id = id}) = 1
           /\ PersistedLots' = ledger'.lots]_vars

\* An import onto a ledger of one record added one record, which stands
\* before the old one.
C26_Witness ==
  /\ ImportDone
  /\ lastOp.imported = 1
  /\ lastOp.skipped + lastOp.errors = 0
  /\ Len(ledger.lots) = 2
  /\ ledger.lots[1].id = 2

\* The records of lots whose id is not tid, in their order.
Without(lots, tid) == SelectSeq(lots, LAMBDA x : x.id # tid)

\* C27: a confirmed deleteTradeById with an id the ledger holds removes
\* exactly the record with that id and leaves every other record and their
\* order as they were, in memory and in the persisted document; with an
\* empty or unknown id, or a declined confirmation, neither changes.
C27_DeleteFrame ==
  [][lastOp'.name = "deleteTradeById" =>
       \A tid \in 0..(MaxLots + 1), confirmed \in BOOLEAN :
         DeleteTrade(tid, confirmed, "TW", "") =>
           IF tid \in Ids(ledger.lots) /\ confirmed
             THEN /\ lastOp'.outcome = "ok"
                  /\ Len(ledger'.lots) = Len(ledger.lots) - 1
                  /\ ledger'.lots = Without(ledger.lots, tid)
                  /\ PersistedLots' = ledger'.lots
             ELSE /\ lastOp'.outcome # "ok"
                  /\ ledger' = ledger
                  /\ localStorage' = localStorage]_vars

\* The first of two records was deleted: the ledger holds the second one.
C27_Witness ==
  /\ lastOp = Op("deleteTradeById", "ok")
  /\ Len(ledger.lots) = 1
  /\ ledger.lots[1].id = 2

\* The handlers by which the user inserts or imports records.
InsertsOrImports == {"addTrade", "importCsv", "importJson"}

\* C28: after a confirmed reset the ledger is empty and stays empty across
\* every later page initialisation until the user inserts or imports
\* records: the cleared records do not come back from the backup.  In
\* SpecReset the primary document starts absent and is removed by reset
\* only, so the states without primary document are the initial one and
\* those since a reset with no insert or import after it.
C28_ResetIsFinal ==
  [][~HasItem(localStorage, STORAGE_KEY) /\ lastOp'.name \notin InsertsOrImports =>
       /\ ledger'.lots = <<>>
       /\ PersistedLots' = <<>>]_vars

\* C29: whenever the primary document has been written and no backup write
\* is in flight, the backup holds the same document as the primary, after
\* every kind of write (addTrade, edit, delete, CSV import, JSON import).
\* The backup put lands with the handler that fires it, so none is in
\* flight in any state.
C29_BackupFresh ==
  HasItem(localStorage, STORAGE_KEY) =>
    /\ HasItem(idb, STORAGE_KEY)
    /\ idb[STORAGE_KEY] = localStorage[STORAGE_KEY]

====
